---- MODULE Spec2Model ----
(***************************************************************************)
(* Model of the spec-kit GitHub Projects synchronisation:                  *)
(*   - specify_cli/github/hierarchy_builder.py  (HierarchyBuilder)         *)
(*   - specify_cli/github/sync_engine.py        (SyncEngine)               *)
(*   - specify_cli/github/project_creator.py, issue_manager.py, config.py  *)
(* The remote service is modelled by the state it keeps (issues, project   *)
(* items, fields, labels, blocked-by links) and by the log of the          *)
(* operations the client was asked to execute.                             *)
(***************************************************************************)
EXTENDS Integers, Sequences, FiniteSets, TLC

(***************************************************************************)
(* Bounds of the model.                                                    *)
(***************************************************************************)
\* create_hierarchy / sync invocations in one behaviour
MaxRuns == 2
\* issues that exist in the repository before the first invocation
MaxPre == 2
\* remote calls that may raise in one behaviour of the sync engine
MaxFaults == 1

(***************************************************************************)
(* Python values.  None is modelled by the falsy value of the type at      *)
(* hand: "" for Optional[str] (the code tests these with `if x:`), 0 for   *)
(* an absent issue id (ids are positive).                                  *)
(***************************************************************************)
NoId == 0

Get(d, k, default) == IF k \in DOMAIN d THEN d[k] ELSE default

Put(d, k, v) == [x \in (DOMAIN d) \cup {k} |-> IF x = k THEN v ELSE d[x]]

EmptyMap == << >>

RECURSIVE Concat(_)
Concat(ss) == IF ss = << >> THEN << >> ELSE Head(ss) \o Concat(Tail(ss))

RECURSIVE JoinStr(_, _)
JoinStr(parts, sep) ==
    IF parts = << >> THEN ""
    ELSE IF Len(parts) = 1 THEN parts[1]
    ELSE parts[1] \o sep \o JoinStr(Tail(parts), sep)

Range(s) == {s[i] : i \in DOMAIN s}

(***************************************************************************)
(* parser/models.py: Task, StoryGroup, Phase, TasksDocument.               *)
(***************************************************************************)
Task(id, description, is_completed, is_parallel, file_paths, phase_no, group_title) ==
    [id |-> id, description |-> description, is_completed |-> is_completed,
     is_parallel |-> is_parallel, user_story |-> "", file_paths |-> file_paths,
     phase_number |-> phase_no, group_title |-> group_title]

StoryGroup(title, user_story, tasks) ==
    [title |-> title, user_story |-> user_story, tasks |-> tasks]

Phase(number, title, purpose, groups, direct_tasks) ==
    [number |-> number, title |-> title, purpose |-> purpose, goal |-> "",
     checkpoint |-> "", independent_test |-> "", groups |-> groups,
     direct_tasks |-> direct_tasks]

TasksDocument(title, phases) == [title |-> title, phases |-> phases]

\* Phase.all_tasks: the direct tasks, then the tasks of each group
PhaseAllTasks(p) ==
    p.direct_tasks \o Concat([i \in DOMAIN p.groups |-> p.groups[i].tasks])

\* TasksDocument.all_tasks
DocAllTasks(d) == Concat([i \in DOMAIN d.phases |-> PhaseAllTasks(d.phases[i])])

(***************************************************************************)
(* The documents the model runs on.                                        *)
(***************************************************************************)
\* one phase, a direct task and a one-task group
DocCoverage ==
    TasksDocument("Hierarchy Coverage", <<
        Phase(1, "Foundation", "",
              << StoryGroup("Task Group: Core", "",
                    << Task("T002", "Grouped task under core", FALSE, FALSE, << >>, 1, "Task Group: Core") >>) >>,
              << Task("T001", "Direct task in root phase", FALSE, FALSE, << >>, 1, "") >>) >>)

\* two phases; phase 1 has a direct task and a one-task group, phase 2 a one-task group
DocEndToEnd ==
    TasksDocument("End To End", <<
        Phase(1, "Setup", "Prepare",
              << StoryGroup("Core", "US1",
                    << Task("T002", "Write tests in tests/test_main.py", TRUE, TRUE, << "tests/test_main.py" >>, 1, "Core") >>) >>,
              << Task("T001", "Initialize repository", FALSE, FALSE, << >>, 1, "") >>),
        Phase(2, "Build", "",
              << StoryGroup("Core", "",
                    << Task("T003", "Build endpoint", FALSE, FALSE, << >>, 2, "Core") >>) >>,
              << >>) >>)

\* two groups of one phase carry the same title
DocSameGroupTitle ==
    TasksDocument("Same Group Title", <<
        Phase(1, "Setup", "",
              << StoryGroup("Core", "", << Task("T001", "First", FALSE, FALSE, << >>, 1, "Core") >>),
                 StoryGroup("Core", "", << Task("T002", "Second", FALSE, TRUE, << >>, 1, "Core") >>) >>,
              << >>) >>)

\* two groups of one phase carry the same title and different user stories
DocSameGroupTitleTwoStories ==
    TasksDocument("Same Group Title, Two Stories", <<
        Phase(1, "Setup", "",
              << StoryGroup("Core", "US1", << Task("T001", "First", FALSE, FALSE, << >>, 1, "Core") >>),
                 StoryGroup("Core", "US2", << Task("T002", "Second", FALSE, FALSE, << >>, 1, "Core") >>) >>,
              << >>) >>)

\* a group whose title is the issue title of a direct task of the same phase
DocGroupNamedAsTask ==
    TasksDocument("Group Named As Task", <<
        Phase(1, "Setup", "",
              << StoryGroup("[T001] Do", "", << >>) >>,
              << Task("T001", "Do", FALSE, FALSE, << >>, 1, "") >>) >>)

\* two phase headings with the same number (the parser accepts them)
DocSamePhaseNumber ==
    TasksDocument("Same Phase Number", <<
        Phase(1, "A", "",
              << StoryGroup("Core", "", << Task("T001", "First", FALSE, FALSE, << >>, 1, "Core") >>) >>,
              << >>),
        Phase(1, "B", "",
              << StoryGroup("Core", "", << Task("T002", "Second", FALSE, FALSE, << >>, 1, "Core") >>) >>,
              << >>) >>)

\* one phase; a direct task, and a group with a user story whose one task is
\* parallel and completed
DocSync ==
    TasksDocument("Sync", <<
        Phase(1, "Setup", "",
              << StoryGroup("Core", "US1",
                    << Task("T002", "Write tests in tests/test_main.py", TRUE, TRUE,
                            << "tests/test_main.py" >>, 1, "Core") >>) >>,
              << Task("T001", "Initialize repository", FALSE, FALSE, << >>, 1, "") >>) >>)

Docs == {DocCoverage, DocEndToEnd, DocSameGroupTitle, DocSameGroupTitleTwoStories,
         DocGroupNamedAsTask, DocSamePhaseNumber, DocSync}

(***************************************************************************)
(* State.                                                                  *)
(***************************************************************************)
VARIABLES
    \* the remote service
    repo_issues,        \* issues of the repository, in listing order
    projects,           \* projects: [items: content ids, fields: name -> option names]
    \* the run at hand
    doc,                \* the parsed TasksDocument
    project_id,         \* the project the builder is called with
    eng,                \* position of SyncEngine.sync_tasks_to_project
    hpc,                \* position of HierarchyBuilder.create_hierarchy
    idx,                \* next entity of the walk of create_hierarchy
    existing_issues_by_title,   \* HierarchyBuilder._existing_issues_by_title
    project_issue_ids,          \* HierarchyBuilder._project_issue_ids
    phase_issue,        \* local of create_hierarchy: issue id of the phase at hand
    group_issue,        \* local of create_hierarchy: issue id of the group at hand
    phase_issues,       \* phase number -> issue id (the cached record of that id)
    group_issues,       \* "<phase>:<group title>" -> issue id
    task_issues,        \* task id -> issue id
    \* observation
    calls,              \* remote operations issued by the invocation at hand
    results,            \* what each completed create_hierarchy returned
    run,                \* invocations started so far
    faults,             \* remote calls that raised so far
    outcomes,           \* how each earlier sync invocation ended, with its log
    \* the remote service, continued
    labels,             \* names of the labels of the repository
    links,              \* blocked-by links: << issue id, blocking issue id >>
    field_values,       \* << project, item, field name >> -> value
    \* sync_tasks_to_project
    disk,               \* .specify/github-projects.json: [exists, data]
    config,             \* the GitHubProjectsConfig the engine was handed
    kw,                 \* keyword arguments of the invocation at hand
    sub,                \* position inside the step at hand
    user_stories,       \* local user_stories (line 99)
    existing_fields,    \* local of setup_custom_fields
    field_ids,          \* local field_ids (line 104)
    \* the parser's dependency graph and IssueManager called on its own
    dep_graph,          \* DependencyGraph.dependencies, in insertion order
    added,              \* the add_dependency calls made by hand: << task, blocker >>
    task_issue_map,     \* task id -> issue record, as a caller hands it over
    created_links,      \* local created_links of create_dependencies
    skipped_links,      \* local skipped_links of create_dependencies
    upc,                \* position of the caller of the function at hand
    cursor,             \* position of the page a listing is read from next
    item_map,           \* issue number -> project item id, as build_project_item_map fills it
    lines,              \* the lines of the text parse_tasks_md was handed
    line_no,            \* the line the loop of parse_tasks_md is at
    current_phase,      \* local current_phase: << >> for None, << phase >> otherwise
    current_group,      \* local current_group: << >> for None, << group >> otherwise
    phase_number,       \* local phase_number
    lookup,             \* _get_project_item_id called on its own: [issue_number, item_id]
    retry_count,        \* GraphQLClient.execute: its retry_count argument
    attempt,            \* the loop variable of execute
    posts,              \* what each POST of the current execute call came to
    sleeps,             \* the waits of the current execute call between attempts, in seconds
    xpc,                \* where execute is: idle, loop, returned or raised
    exc,                \* the exception execute has raised, "" without one
    rate_limit_remaining    \* GraphQLClient._rate_limit_remaining

builder == << hpc, idx, existing_issues_by_title, project_issue_ids, phase_issue,
              group_issue, phase_issues, group_issues, task_issues >>
vars == << repo_issues, projects, doc, project_id, eng, hpc, idx,
           existing_issues_by_title, project_issue_ids, phase_issue, group_issue,
           phase_issues, group_issues, task_issues, calls, results, run, faults,
           outcomes, labels, links, field_values, disk, config, kw, sub,
           user_stories, existing_fields, field_ids, dep_graph, added, task_issue_map,
           created_links, skipped_links, upc,
           cursor, item_map,
           lines, line_no, current_phase, current_group, phase_number,
           lookup,
           retry_count, attempt, posts, sleeps, xpc, exc, rate_limit_remaining >>

\* the reading of a listing page by page
paging == << cursor, item_map >>

\* what neither create_hierarchy nor sync_tasks_to_project touches
parser == << lines, line_no, current_phase, current_group, phase_number >>

lookups == << lookup >>

client == << retry_count, attempt, posts, sleeps, xpc, exc, rate_limit_remaining >>

unit == << dep_graph, added, task_issue_map, created_links, skipped_links, upc,
          paging,
          parser,
          lookups,
          client >>

\* what create_hierarchy neither reads nor writes
remote_rest == << labels, links, field_values >>
engine == << disk, config, kw, user_stories, existing_fields, field_ids >>

(***************************************************************************)
(* hierarchy_builder.py: titles and bodies computed by create_hierarchy.   *)
(***************************************************************************)
PhaseTitle(p) == "Phase " \o ToString(p.number) \o ": " \o p.title

\* the tasks create_hierarchy walks under a group (lines 103-106)
GroupTasks(d, p, g) ==
    SelectSeq(DocAllTasks(d),
              LAMBDA t : t.phase_number = p.number /\ t.group_title = g.title)

PhaseBody(d, p) ==
    LET phase_tasks == SelectSeq(DocAllTasks(d), LAMBDA t : t.phase_number = p.number)
        body_parts ==
            (IF p.purpose # "" THEN << "**Purpose**: " \o p.purpose >> ELSE << >>)
            \o (IF p.goal # "" THEN << "**Goal**: " \o p.goal >> ELSE << >>)
            \o (IF p.checkpoint # "" THEN << "**Checkpoint**: " \o p.checkpoint >> ELSE << >>)
            \o << "\n**Tasks**: " \o ToString(Len(phase_tasks)) \o " total" >>
    IN  JoinStr(body_parts, "\n\n")

GroupBody(d, p, g) ==
    LET group_body == "**Phase**: " \o ToString(p.number) \o "\n\n**Tasks**: "
                      \o ToString(Len(GroupTasks(d, p, g))) \o " total"
    IN  IF g.user_story # "" THEN "**User Story**: " \o g.user_story \o "\n\n" \o group_body
        ELSE group_body

TaskTitle(t) == "[" \o t.id \o "] " \o t.description

\* (the back quotes around a file path are written < and > here)
TaskBody(t) ==
    "**Task ID**: " \o t.id \o "\n\n**Description**: " \o t.description
    \o (IF t.is_parallel
        THEN "\n\n**Parallel**: Yes - Can be executed in parallel with other parallel tasks"
        ELSE "")
    \o (IF t.file_paths # << >>
        THEN "\n\n**Files**:\n"
             \o JoinStr([i \in DOMAIN t.file_paths |-> "- <" \o t.file_paths[i] \o ">"], "\n")
        ELSE "")

GroupKey(p, g) == ToString(p.number) \o ":" \o g.title

(***************************************************************************)
(* The walk of create_hierarchy (lines 67-170), flattened: for each phase  *)
(* the phase, then each group followed by its tasks, then the direct       *)
(* tasks.  pi and gi index doc.phases and phase.groups.                    *)
(***************************************************************************)
NoTask == Task("", "", FALSE, FALSE, << >>, 0, "")

Visit(kind, pi, gi, task) == [kind |-> kind, pi |-> pi, gi |-> gi, task |-> task]

GroupVisits(d, pi, gi) ==
    LET p == d.phases[pi]
        group_tasks == GroupTasks(d, p, p.groups[gi])
    IN  << Visit("group", pi, gi, NoTask) >>
        \o [i \in DOMAIN group_tasks |-> Visit("group_task", pi, gi, group_tasks[i])]

PhaseVisits(d, pi) ==
    LET p == d.phases[pi]
    IN  << Visit("phase", pi, 0, NoTask) >>
        \o Concat([gi \in DOMAIN p.groups |-> GroupVisits(d, pi, gi)])
        \o [i \in DOMAIN p.direct_tasks |-> Visit("direct_task", pi, 0, p.direct_tasks[i])]

Visits(d) == Concat([pi \in DOMAIN d.phases |-> PhaseVisits(d, pi)])

VisitTitle(d, v) ==
    CASE v.kind = "phase" -> PhaseTitle(d.phases[v.pi])
      [] v.kind = "group" -> d.phases[v.pi].groups[v.gi].title
      [] OTHER -> TaskTitle(v.task)

VisitBody(d, v) ==
    CASE v.kind = "phase" -> PhaseBody(d, d.phases[v.pi])
      [] v.kind = "group" -> GroupBody(d, d.phases[v.pi], d.phases[v.pi].groups[v.gi])
      [] OTHER -> TaskBody(v.task)

\* mutant: a direct task is put under the group issue at hand
VisitParent_DirectUnderGroup(v, phase_issue_id, group_issue_id) ==
    CASE v.kind = "phase" -> NoId
      [] v.kind = "group" -> phase_issue_id
      [] OTHER -> group_issue_id

\* parent_issue_id of the _create_issue call of a visit (lines 90, 117, 142, 164)
VisitParent(v, phase_issue_id, group_issue_id) ==
    CASE v.kind = "phase" -> NoId
      [] v.kind = "group" -> phase_issue_id
      [] v.kind = "group_task" -> group_issue_id
      [] OTHER -> phase_issue_id

(***************************************************************************)
(* Remote records and the operations log.                                  *)
(***************************************************************************)
RemoteIssue(id, title, body, parent) ==
    [id |-> id, number |-> id, title |-> title, body |-> body, parent |-> parent,
     state |-> "OPEN"]

\* the fields the issue listing of _load_existing_issues asks for (lines 276-285)
CachedIssue(i) ==
    [id |-> i.id, number |-> i.number, title |-> i.title, body |-> i.body,
     parent |-> i.parent]

Call(op, step, id, parent, title, ok) ==
    [op |-> op, step |-> step, id |-> id, parent |-> parent, title |-> title, ok |-> ok]

Mutations ==
    {"createProjectV2", "createProjectV2Field", "createLabel", "createIssue",
     "updateIssue", "addProjectV2ItemById", "updateProjectV2ItemFieldValue",
     "addBlockedBy"}

CallsOf(log, op) == SelectSeq(log, LAMBDA c : c.op = op)

(***************************************************************************)
(* HierarchyBuilder._load_existing_issues (lines 265-305): every issue of  *)
(* the listing, grouped by title, in listing order.                        *)
(***************************************************************************)
LoadExistingIssues(issues) ==
    LET nodes == [i \in DOMAIN issues |-> CachedIssue(issues[i])]
    IN  [t \in {nodes[i].title : i \in DOMAIN nodes} |->
            SelectSeq(nodes, LAMBDA n : n.title = t)]

(***************************************************************************)
(* HierarchyBuilder._load_project_issue_ids (lines 307-331): the content   *)
(* ids of the project's items; an item without content is skipped.         *)
(***************************************************************************)
LoadProjectIssueIds(items) == {items[i] : i \in DOMAIN items} \ {NoId}

(***************************************************************************)
(* HierarchyBuilder._find_existing_issue (lines 256-263): the position, in *)
(* the candidates of the title, of the first issue with that parent; 0 if  *)
(* there is none.                                                          *)
(***************************************************************************)
\* mutant: an issue that has a parent is never found
FindExistingIssue_TopLevelOnly(index, title, parent_issue_id) ==
    LET candidates == Get(index, title, << >>)
        hits == {i \in DOMAIN candidates :
                    candidates[i].parent = parent_issue_id /\ parent_issue_id = NoId}
    IN  IF hits = {} THEN 0 ELSE CHOOSE i \in hits : \A j \in hits : i <= j

\* mutant: without an issue of the title and the parent, one of the title is taken
FindExistingIssue_TitleFallback(index, title, parent_issue_id) ==
    LET candidates == Get(index, title, << >>)
        hits == {i \in DOMAIN candidates : candidates[i].parent = parent_issue_id}
    IN  IF hits # {} THEN CHOOSE i \in hits : \A j \in hits : i <= j
        ELSE IF candidates = << >> THEN 0 ELSE 1

\* mutant: the parent is not compared
FindExistingIssue_ByTitleOnly(index, title, parent_issue_id) ==
    IF Get(index, title, << >>) = << >> THEN 0 ELSE 1

FindExistingIssue(index, title, parent_issue_id) ==
    LET candidates == Get(index, title, << >>)
        hits == {i \in DOMAIN candidates : candidates[i].parent = parent_issue_id}
    IN  IF hits = {} THEN 0 ELSE CHOOSE i \in hits : \A j \in hits : i <= j

\* lines 212-219: an existing issue is added to the project unless its id is known
\* mutant: the known ids are not consulted
NeedsProjectItem_Always(issue_id, known_ids) == TRUE

NeedsProjectItem(issue_id, known_ids) == issue_id \notin known_ids

\* line 205: the body of an existing issue is rewritten when it differs
NeedsBodyUpdate(body, existing_issue) == body # existing_issue.body

(***************************************************************************)
(* A remote call of the step at hand raises when f names it (f = 0: none   *)
(* raises).  The exception leaves create_hierarchy and the sync.           *)
(***************************************************************************)
Fault(f, ncalls) ==
    /\ f \in 0..ncalls
    /\ f # 0 => faults < MaxFaults
    /\ faults' = IF f = 0 THEN faults ELSE faults + 1

\* mutant: the error is logged and the step carries on
Raised_CarriesOn == eng' = eng /\ hpc' = hpc

Raised == eng' = "failed" /\ hpc' = "raised"

(***************************************************************************)
(* sync_tasks_to_project, lines 62-159: the steps that talk to the remote  *)
(* service or to the configuration file, in the order of the code.  Step 8 *)
(* (set_field_values_all) has two loops, over the tasks and the groups.    *)
(***************************************************************************)
\* mutant: the dependencies are linked before the completion states are synced
NextStep_LinksBeforeCompletion(step) ==
    CASE step = "resolve" -> "project"
      [] step = "project" -> "fields"
      [] step = "fields" -> "labels"
      [] step = "labels" -> "hierarchy"
      [] step = "hierarchy" -> "values"
      [] step = "values" -> "group_values"
      [] step = "group_values" -> "deps"
      [] step = "deps" -> "completion"
      [] step = "completion" -> "persist"
      [] OTHER -> "done"

NextStep(step) ==
    CASE step = "resolve" -> "project"
      [] step = "project" -> "fields"
      [] step = "fields" -> "labels"
      [] step = "labels" -> "hierarchy"
      [] step = "hierarchy" -> "values"
      [] step = "values" -> "group_values"
      [] step = "group_values" -> "completion"
      [] step = "completion" -> "deps"
      [] step = "deps" -> "persist"
      [] OTHER -> "done"

(***************************************************************************)
(* create_hierarchy, lines 59-64: fresh maps, then the two loads.          *)
(***************************************************************************)
HB_Enter ==
    /\ phase_issues' = EmptyMap
    /\ group_issues' = EmptyMap
    /\ task_issues' = EmptyMap
    /\ phase_issue' = NoId
    /\ group_issue' = NoId
    /\ idx' = 1
    /\ hpc' = "load_issues"
    /\ UNCHANGED << existing_issues_by_title, project_issue_ids >>

HB_LoadExistingIssues(f) ==
    /\ hpc = "load_issues"
    /\ Fault(f, 1)
    /\ calls' = Append(calls, Call("GetRepositoryIssues", "hierarchy", NoId, NoId, "", f = 0))
    /\ IF f = 0
       THEN /\ existing_issues_by_title' = LoadExistingIssues(repo_issues)
            /\ hpc' = "load_items"
            /\ UNCHANGED eng
       ELSE Raised /\ UNCHANGED existing_issues_by_title
    /\ UNCHANGED << repo_issues, projects, doc, project_id, idx, project_issue_ids,
                    phase_issue, group_issue, phase_issues, group_issues, task_issues,
                    results, run, outcomes, sub, remote_rest, engine >>
    /\ UNCHANGED unit

HB_LoadProjectIssueIds(f) ==
    /\ hpc = "load_items"
    /\ Fault(f, 1)
    /\ calls' = Append(calls, Call("GetProjectItems", "hierarchy", NoId, NoId, "", f = 0))
    /\ IF f = 0
       THEN /\ project_issue_ids' = LoadProjectIssueIds(projects[project_id].items)
            /\ hpc' = "walk"
            /\ UNCHANGED eng
       ELSE Raised /\ UNCHANGED project_issue_ids
    /\ UNCHANGED << repo_issues, projects, doc, project_id, idx, existing_issues_by_title,
                    phase_issue, group_issue, phase_issues, group_issues, task_issues,
                    results, run, outcomes, sub, remote_rest, engine >>
    /\ UNCHANGED unit

(***************************************************************************)
(* create_hierarchy, lines 95, 123, 147, 169: the returned issue becomes   *)
(* the map entry of the entity (and the parent of what follows).           *)
(***************************************************************************)
Record(v, id) ==
    /\ phase_issue' = IF v.kind = "phase" THEN id ELSE phase_issue
    /\ group_issue' = IF v.kind = "group" THEN id ELSE group_issue
    /\ phase_issues' = IF v.kind = "phase"
                       THEN Put(phase_issues, doc.phases[v.pi].number, id)
                       ELSE phase_issues
    /\ group_issues' = IF v.kind = "group"
                       THEN Put(group_issues,
                                GroupKey(doc.phases[v.pi], doc.phases[v.pi].groups[v.gi]), id)
                       ELSE group_issues
    /\ task_issues' = IF v.kind \in {"group_task", "direct_task"}
                      THEN Put(task_issues, v.task.id, id)
                      ELSE task_issues

(***************************************************************************)
(* _create_issue, lines 203-221: the issue exists.                         *)
(***************************************************************************)
ReuseIssue(v, title, body, pos, f) ==
    LET existing_issue == existing_issues_by_title[title][pos]
        upd == NeedsBodyUpdate(body, existing_issue)
        add == NeedsProjectItem(existing_issue.id, project_issue_ids)
        upd_ok == upd /\ f # 1
        add_issued == add /\ ~(upd /\ f = 1)
        add_ok == add_issued /\ f = 0
    IN  /\ Fault(f, (IF upd THEN 1 ELSE 0) + (IF add THEN 1 ELSE 0))
        /\ calls' = calls
              \o (IF upd
                  THEN << Call("updateIssue", "hierarchy", existing_issue.id, NoId, "", upd_ok) >>
                  ELSE << >>)
              \o (IF add_issued
                  THEN << Call("addProjectV2ItemById", "hierarchy", existing_issue.id, NoId, "", add_ok) >>
                  ELSE << >>)
        /\ repo_issues' =
              IF upd_ok
              THEN [i \in DOMAIN repo_issues |->
                      IF repo_issues[i].id = existing_issue.id
                      THEN [repo_issues[i] EXCEPT !.body = body]
                      ELSE repo_issues[i]]
              ELSE repo_issues
        /\ projects' =
              IF add_ok
              THEN [projects EXCEPT ![project_id].items = Append(@, existing_issue.id)]
              ELSE projects
        /\ existing_issues_by_title' =
              IF upd_ok
              THEN [existing_issues_by_title EXCEPT ![title][pos].body = body]
              ELSE existing_issues_by_title
        /\ project_issue_ids' =
              IF add_ok THEN project_issue_ids \cup {existing_issue.id} ELSE project_issue_ids
        /\ IF f = 0
           THEN Record(v, existing_issue.id) /\ idx' = idx + 1 /\ UNCHANGED << hpc, eng >>
           ELSE /\ Raised
                /\ UNCHANGED << idx, phase_issue, group_issue, phase_issues, group_issues,
                                task_issues >>

(***************************************************************************)
(* _create_issue, lines 223-254: no issue has the title and the parent.    *)
(* The service numbers the new issue, links it to its parent and, for      *)
(* projectV2Ids, puts it into the project.                                 *)
(***************************************************************************)
\* mutant: the issue that was created is not put into the index
IndexWith_Forgets(index, title, issue) == index

\* lines 241-249: the issue that was created joins the candidates of its title
IndexWith(index, title, issue) ==
    Put(index, title, Append(Get(index, title, << >>), CachedIssue(issue)))

CreateNewIssue(v, title, body, parent_issue_id, f) ==
    LET id == Len(repo_issues) + 1
        issue == RemoteIssue(id, title, body, parent_issue_id)
    IN  /\ Fault(f, 1)
        /\ calls' = Append(calls, Call("createIssue", "hierarchy", id, parent_issue_id, title, f = 0))
        /\ IF f = 0
           THEN /\ repo_issues' = Append(repo_issues, issue)
                /\ projects' = [projects EXCEPT ![project_id].items = Append(@, id)]
                /\ existing_issues_by_title' = IndexWith(existing_issues_by_title, title, issue)
                /\ project_issue_ids' = project_issue_ids \cup {id}
                /\ Record(v, id)
                /\ idx' = idx + 1
                /\ UNCHANGED << hpc, eng >>
           ELSE /\ Raised
                /\ UNCHANGED << repo_issues, projects, existing_issues_by_title,
                                project_issue_ids, idx, phase_issue, group_issue,
                                phase_issues, group_issues, task_issues >>

\* one _create_issue call of the walk
HB_CreateIssue(f) ==
    /\ hpc = "walk"
    /\ idx <= Len(Visits(doc))
    /\ LET v == Visits(doc)[idx]
           title == VisitTitle(doc, v)
           body == VisitBody(doc, v)
           parent_issue_id == VisitParent(v, phase_issue, group_issue)
           pos == FindExistingIssue(existing_issues_by_title, title, parent_issue_id)
       IN  IF pos > 0
           THEN ReuseIssue(v, title, body, pos, f)
           ELSE CreateNewIssue(v, title, body, parent_issue_id, f)
    /\ UNCHANGED << doc, project_id, results, run, outcomes, sub, remote_rest, engine >>
    /\ UNCHANGED unit

\* lines 174-178: the three maps are returned
HierarchyResult ==
    [phase_issues |-> phase_issues, group_issues |-> group_issues,
     task_issues |-> task_issues, calls |-> calls]

HB_Return ==
    /\ hpc = "walk"
    /\ idx > Len(Visits(doc))
    /\ results' = Append(results, HierarchyResult)
    /\ hpc' = "idle"
    /\ eng' = IF eng = "hierarchy" THEN NextStep(eng) ELSE eng
    /\ sub' = 1
    /\ UNCHANGED << repo_issues, projects, doc, project_id, idx,
                    existing_issues_by_title, project_issue_ids, phase_issue, group_issue,
                    phase_issues, group_issues, task_issues, calls, run, faults,
                    outcomes, remote_rest, engine >>
    /\ UNCHANGED unit

(***************************************************************************)
(* config.py: GitHubProjectsConfig, load_config, save_config.  project_id  *)
(* stands for the triple (id, number, url), which the code sets together.  *)
(***************************************************************************)
DefaultConfig ==
    [project_id |-> NoId, field_ids |-> EmptyMap, last_synced_at |-> "",
     last_synced_tasks_md_hash |-> ""]

NoFile == [exists |-> FALSE, data |-> DefaultConfig]

\* load_config (lines 44-60)
LoadConfig(file) == IF file.exists THEN file.data ELSE DefaultConfig

\* mutant: nothing is written
SaveConfig_NoWrite(file, cfg) == file

\* save_config (lines 63-71)
SaveConfig(file, cfg) == [exists |-> TRUE, data |-> cfg]

(***************************************************************************)
(* The builder on its own: create_hierarchy is called, up to MaxRuns       *)
(* times, on one document against a repository and a project that may hold *)
(* issues already (tests/test_github_projects_sync.py, lines 329-402).     *)
(***************************************************************************)
CallCreateHierarchy ==
    /\ eng = "builder"
    /\ hpc = "idle"
    /\ run < MaxRuns
    /\ run' = run + 1
    /\ calls' = << >>
    /\ HB_Enter
    /\ UNCHANGED << repo_issues, projects, doc, project_id, eng, results, faults,
                    outcomes, sub, remote_rest, engine >>
    /\ UNCHANGED unit

\* issues that may exist before the first call: a stale issue with the title
\* of the first phase, and an issue no entity of the document matches
PreCandidates(d) ==
    { [title |-> PhaseTitle(d.phases[1]), body |-> "stale"],
      [title |-> "Unrelated", body |-> "text"],
      [title |-> "Core", body |-> "other"] }

PreIssues(d) ==
    UNION { [1..n -> PreCandidates(d)] : n \in 0..MaxPre }

\* the project holds any of the issues, and possibly an item without content
PreItems(n) ==
    { SelectSeq([i \in 1..n |-> i], LAMBDA i : i \in S) \o tail :
        S \in SUBSET (1..n), tail \in {<< >>, << NoId >>} }

\* no text is being parsed
InitParserIdle ==
    /\ lines = << >>
    /\ line_no = 0
    /\ current_phase = << >>
    /\ current_group = << >>
    /\ phase_number = 0

\* no item is looked up
NoLookup == [issue_number |-> 0, item_id |-> NoId]

\* no listing is being read
\* lines 43-45 of graphql_client.py: a client that has executed nothing
InitClientIdle ==
    /\ retry_count = 0
    /\ attempt = 0
    /\ posts = << >>
    /\ sleeps = << >>
    /\ xpc = "idle"
    /\ exc = ""
    /\ rate_limit_remaining = 5000

InitPagingIdle ==
    /\ cursor = 0
    /\ item_map = EmptyMap
    /\ lookup = NoLookup
    /\ InitClientIdle

\* no function is called on its own
InitUnitIdle ==
    /\ dep_graph = << >>
    /\ added = << >>
    /\ task_issue_map = EmptyMap
    /\ created_links = 0
    /\ skipped_links = 0
    /\ upc = "none"
    /\ InitPagingIdle
    /\ InitParserIdle

InitBuilderIdle ==
    /\ hpc = "idle"
    /\ idx = 1
    /\ existing_issues_by_title = EmptyMap
    /\ project_issue_ids = {}
    /\ phase_issue = NoId
    /\ group_issue = NoId
    /\ phase_issues = EmptyMap
    /\ group_issues = EmptyMap
    /\ task_issues = EmptyMap
    /\ calls = << >>
    /\ results = << >>
    /\ run = 0
    /\ faults = 0
    /\ outcomes = << >>
    /\ sub = 1
    /\ user_stories = << >>
    /\ existing_fields = EmptyMap
    /\ field_ids = EmptyMap

InitH ==
    /\ doc \in Docs \ {DocSync}
    /\ \E pre \in PreIssues(doc) :
          /\ repo_issues = [i \in DOMAIN pre |-> RemoteIssue(i, pre[i].title, pre[i].body, NoId)]
          /\ \E items \in PreItems(Len(pre)) :
                projects = << [items |-> items, fields |-> EmptyMap] >>
    /\ project_id = 1
    /\ eng = "builder"
    /\ InitBuilderIdle
    /\ InitUnitIdle
    /\ labels = {}
    /\ links = {}
    /\ field_values = EmptyMap
    /\ disk = NoFile
    /\ config = DefaultConfig
    /\ kw = "none"

NextH ==
    \/ CallCreateHierarchy
    \/ HB_LoadExistingIssues(0)
    \/ HB_LoadProjectIssueIds(0)
    \/ HB_CreateIssue(0)
    \/ HB_Return

SpecH == InitH /\ [][NextH]_vars

(***************************************************************************)
(* parser/dependency_graph.py and parser/models.py (DependencyGraph).  The *)
(* graph is the dict `dependencies` in insertion order: a sequence of      *)
(* [task_id, blockers].                                                    *)
(***************************************************************************)
\* mutant: the blocker is appended without the test of line 95
AddDependency_Unchecked(graph, task_id, depends_on) ==
    IF \E i \in DOMAIN graph : graph[i].task_id = task_id
    THEN [i \in DOMAIN graph |->
            IF graph[i].task_id = task_id
            THEN [graph[i] EXCEPT !.blockers = Append(@, depends_on)]
            ELSE graph[i]]
    ELSE Append(graph, [task_id |-> task_id, blockers |-> << depends_on >>])

\* DependencyGraph.add_dependency (models.py, lines 91-96)
\* mutant: the blocker is made to wait for the task
AddDependency_Reversed(graph, task_id, depends_on) ==
    Append(graph, [task_id |-> depends_on, blockers |-> << task_id >>])

AddDependency(graph, task_id, depends_on) ==
    IF \E i \in DOMAIN graph : graph[i].task_id = task_id
    THEN [i \in DOMAIN graph |->
            IF graph[i].task_id = task_id /\ depends_on \notin Range(graph[i].blockers)
            THEN [graph[i] EXCEPT !.blockers = Append(@, depends_on)]
            ELSE graph[i]]
    ELSE Append(graph, [task_id |-> task_id, blockers |-> << depends_on >>])

\* mutant: a parallel task becomes the task the next sequential task waits for
RECURSIVE PhaseDependencies_ParallelBlocks(_, _, _, _, _)
PhaseDependencies_ParallelBlocks(graph, all_tasks, i, last_sequential_task, parallel_group_anchor) ==
    IF i > Len(all_tasks)
    THEN [graph |-> graph, last_sequential_task |-> last_sequential_task]
    ELSE LET task == all_tasks[i] IN
         IF ~task.is_parallel
         THEN PhaseDependencies_ParallelBlocks(
                 IF last_sequential_task # NoTask
                 THEN AddDependency(graph, task.id, last_sequential_task.id)
                 ELSE graph,
                 all_tasks, i + 1, task, task)
         ELSE PhaseDependencies_ParallelBlocks(
                 IF parallel_group_anchor # NoTask
                 THEN AddDependency(graph, task.id, parallel_group_anchor.id)
                 ELSE graph,
                 all_tasks, i + 1, task, parallel_group_anchor)

\* mutant: a parallel task becomes the anchor of the parallel tasks after it
RECURSIVE PhaseDependencies_ParallelAnchors(_, _, _, _, _)
PhaseDependencies_ParallelAnchors(graph, all_tasks, i, last_sequential_task, parallel_group_anchor) ==
    IF i > Len(all_tasks)
    THEN [graph |-> graph, last_sequential_task |-> last_sequential_task]
    ELSE LET task == all_tasks[i] IN
         IF ~task.is_parallel
         THEN PhaseDependencies_ParallelAnchors(
                 IF last_sequential_task # NoTask
                 THEN AddDependency(graph, task.id, last_sequential_task.id)
                 ELSE graph,
                 all_tasks, i + 1, task, task)
         ELSE PhaseDependencies_ParallelAnchors(
                 IF parallel_group_anchor # NoTask
                 THEN AddDependency(graph, task.id, parallel_group_anchor.id)
                 ELSE graph,
                 all_tasks, i + 1, last_sequential_task, task)

\* build_dependency_graph, lines 47-62: the tasks of one phase from position i on
RECURSIVE PhaseDependencies(_, _, _, _, _)
PhaseDependencies(graph, all_tasks, i, last_sequential_task, parallel_group_anchor) ==
    IF i > Len(all_tasks)
    THEN [graph |-> graph, last_sequential_task |-> last_sequential_task]
    ELSE LET task == all_tasks[i] IN
         IF ~task.is_parallel
         THEN PhaseDependencies(
                 IF last_sequential_task # NoTask
                 THEN AddDependency(graph, task.id, last_sequential_task.id)
                 ELSE graph,
                 all_tasks, i + 1, task, task)
         ELSE PhaseDependencies(
                 IF parallel_group_anchor # NoTask
                 THEN AddDependency(graph, task.id, parallel_group_anchor.id)
                 ELSE graph,
                 all_tasks, i + 1, last_sequential_task, parallel_group_anchor)

\* mutant: no edge crosses a phase boundary
RECURSIVE DocDependencies_WithinPhases(_, _, _, _)
DocDependencies_WithinPhases(graph, d, pi, last_task_of_previous_phase) ==
    IF pi > Len(d.phases) THEN graph
    ELSE DocDependencies_WithinPhases(
            PhaseDependencies(graph, PhaseAllTasks(d.phases[pi]), 1, NoTask, NoTask).graph,
            d, pi + 1, last_task_of_previous_phase)

\* mutant: the next phase waits for the last task of the phase, parallel or not
RECURSIVE DocDependencies_LastTaskOverall(_, _, _, _)
DocDependencies_LastTaskOverall(graph, d, pi, last_task_of_previous_phase) ==
    IF pi > Len(d.phases) THEN graph
    ELSE LET all_tasks == PhaseAllTasks(d.phases[pi]) IN
         IF all_tasks = << >>
         THEN DocDependencies_LastTaskOverall(graph, d, pi + 1, last_task_of_previous_phase)
         ELSE LET crossed == IF last_task_of_previous_phase # ""
                             THEN AddDependency(graph, all_tasks[1].id,
                                                last_task_of_previous_phase)
                             ELSE graph
                  r == PhaseDependencies(crossed, all_tasks, 1, NoTask, NoTask)
              IN  DocDependencies_LastTaskOverall(r.graph, d, pi + 1,
                                                  all_tasks[Len(all_tasks)].id)

\* mutant: a phase without tasks makes the next phase start afresh
RECURSIVE DocDependencies_EmptyPhaseResets(_, _, _, _)
DocDependencies_EmptyPhaseResets(graph, d, pi, last_task_of_previous_phase) ==
    IF pi > Len(d.phases) THEN graph
    ELSE LET all_tasks == PhaseAllTasks(d.phases[pi]) IN
         IF all_tasks = << >>
         THEN DocDependencies_EmptyPhaseResets(graph, d, pi + 1, "")
         ELSE LET crossed == IF last_task_of_previous_phase # ""
                             THEN AddDependency(graph, all_tasks[1].id,
                                                last_task_of_previous_phase)
                             ELSE graph
                  r == PhaseDependencies(crossed, all_tasks, 1, NoTask, NoTask)
                  last == IF r.last_sequential_task # NoTask
                          THEN r.last_sequential_task.id
                          ELSE all_tasks[Len(all_tasks)].id
              IN  DocDependencies_EmptyPhaseResets(r.graph, d, pi + 1, last)

\* build_dependency_graph, lines 32-69: the phases from position pi on
RECURSIVE DocDependencies(_, _, _, _)
DocDependencies(graph, d, pi, last_task_of_previous_phase) ==
    IF pi > Len(d.phases) THEN graph
    ELSE LET all_tasks == PhaseAllTasks(d.phases[pi]) IN
         IF all_tasks = << >>
         THEN DocDependencies(graph, d, pi + 1, last_task_of_previous_phase)
         ELSE LET crossed == IF last_task_of_previous_phase # ""
                             THEN AddDependency(graph, all_tasks[1].id,
                                                last_task_of_previous_phase)
                             ELSE graph
                  r == PhaseDependencies(crossed, all_tasks, 1, NoTask, NoTask)
                  last == IF r.last_sequential_task # NoTask
                          THEN r.last_sequential_task.id
                          ELSE all_tasks[Len(all_tasks)].id
              IN  DocDependencies(r.graph, d, pi + 1, last)

BuildDependencyGraph(d) == DocDependencies(<< >>, d, 1, "")

\* the (dependent, blocker) pairs in the order create_dependencies walks them
DependencyEdges(graph) ==
    Concat([i \in DOMAIN graph |->
              [j \in DOMAIN graph[i].blockers |->
                  [task_id |-> graph[i].task_id, blocker |-> graph[i].blockers[j]]]])

(***************************************************************************)
(* sync_engine.py, lines 97-102, and project_creator.py: the five custom   *)
(* fields.  A remote field is [id, options: option name -> option id].     *)
(***************************************************************************)
PhaseNames(d) == [i \in DOMAIN d.phases |-> PhaseTitle(d.phases[i])]

\* lines 99-102: the tags of the groups and of the tasks, None and "" left out
UserStories(d) ==
    (UNION {{d.phases[pi].groups[gi].user_story : gi \in DOMAIN d.phases[pi].groups} :
               pi \in DOMAIN d.phases}
     \cup {DocAllTasks(d)[i].user_story : i \in DOMAIN DocAllTasks(d)}) \ {""}

\* list(set(...)): the order of the list is whatever the set iterates in
Orderings(S) == {s \in [1..Cardinality(S) -> S] : Range(s) = S}

FieldNames == << "Task ID", "Phase", "User Story", "Priority", "Parallel" >>

\* the key of field_ids that holds the option ids of a single-select field
OptionsKey(name) ==
    CASE name = "Phase" -> "Phase_options"
      [] name = "User Story" -> "UserStory_options"
      [] name = "Priority" -> "Priority_options"
      [] name = "Parallel" -> "Parallel_options"
      [] OTHER -> ""

FieldOptions(name, phases, stories) ==
    CASE name = "Phase" -> phases
      [] name = "User Story" -> stories \o << "N/A" >>
      [] name = "Priority" -> << "P1 - Critical", "P2 - High", "P3 - Medium", "P4 - Low", "N/A" >>
      [] name = "Parallel" -> << "Yes", "No" >>
      [] OTHER -> << >>

\* what the service returns for createProjectV2Field
RemoteField(project, name, options) ==
    [id |-> "F" \o ToString(project) \o ":" \o name,
     options |-> [o \in Range(options) |-> "O:" \o o]]

\* setup_custom_fields: field_ids[name] and field_ids[name's options key]
WithField(ids, name, field) ==
    IF OptionsKey(name) = ""
    THEN Put(ids, name, field.id)
    ELSE Put(Put(ids, name, field.id), OptionsKey(name), field.options)

(***************************************************************************)
(* issue_manager.py, create_labels (lines 32-75): the labels, in order.    *)
(***************************************************************************)
\* str.lower on the user story tags of the documents
Lower(s) ==
    CASE s = "US1" -> "us1"
      [] s = "US2" -> "us2"
      [] OTHER -> s

LabelNames(d, stories) ==
    [i \in DOMAIN d.phases |-> "phase-" \o ToString(d.phases[i].number)]
    \o [i \in DOMAIN stories |-> "user-story-" \o Lower(stories[i])]
    \o << "p-critical", "p-high", "p-medium", "p-low" >>
    \o << "parallel" >>

(***************************************************************************)
(* issue_manager.py, set_field_values_all (lines 199-305).                 *)
(***************************************************************************)
\* the first occurrences of a sequence, in order: the keys of a dict filled
\* in that order
RECURSIVE FirstOccurrences(_)
FirstOccurrences(s) ==
    IF s = << >> THEN << >>
    ELSE LET init == FirstOccurrences(SubSeq(s, 1, Len(s) - 1))
             last == s[Len(s)]
         IN  IF last \in Range(init) THEN init ELSE Append(init, last)

\* task_issue_map.items(): the task ids in the order the walk stored them
TaskKeys(d) ==
    LET vs == SelectSeq(Visits(d), LAMBDA v : v.kind \in {"group_task", "direct_task"})
    IN  FirstOccurrences([i \in DOMAIN vs |-> vs[i].task.id])

\* group_issue_map.items(), each key split at its first colon (line 268)
GroupKeyParts(d) ==
    LET vs == SelectSeq(Visits(d), LAMBDA v : v.kind = "group")
    IN  FirstOccurrences([i \in DOMAIN vs |->
            [phase_number |-> ToString(d.phases[vs[i].pi].number),
             group_title |-> d.phases[vs[i].pi].groups[vs[i].gi].title]])

\* the sequences above and the tasks and dependencies of a document, computed
\* once for each document of the model
TaskKeysOf == [d \in Docs |-> TaskKeys(d)]

GroupKeyPartsOf == [d \in Docs |-> GroupKeyParts(d)]

AllTasksOf == [d \in Docs |-> DocAllTasks(d)]

\* dep_graph of sync_tasks_to_project (line 59), as create_dependencies walks it
DependencyEdgesOf == [d \in Docs |-> DependencyEdges(BuildDependencyGraph(d))]

\* _get_project_item_id (lines 156-197): the id of the first item whose
\* content has the issue number; 0 (None) if the project has no such item
ProjectItemId(items, issue_number) ==
    LET hits == {i \in DOMAIN items : items[i] = issue_number}
    IN  IF hits = {} THEN 0 ELSE CHOOSE i \in hits : \A j \in hits : i <= j

\* first of the elements that satisfy the test of a lookup loop, or a default
FirstWhere(hits, default) ==
    IF hits = << >> THEN default ELSE hits[1]

NoPhase == Phase(0, "", "", << >>, << >>)

NoGroup == StoryGroup("", "", << >>)

\* _set_field_values (lines 388-448): the fields it sets, in order
TaskFieldValues(task, phase, group, ids) ==
    LET phase_name == PhaseTitle(phase)
        us_value == IF group # NoGroup /\ group.user_story # "" THEN group.user_story
                    ELSE IF task.user_story # "" THEN task.user_story
                    ELSE "N/A"
        parallel_value == IF task.is_parallel THEN "Yes" ELSE "No"
        Select(name, option) ==
            IF option \in DOMAIN Get(ids, OptionsKey(name), EmptyMap)
            THEN << [field |-> name, value |-> ids[OptionsKey(name)][option]] >>
            ELSE << >>
    IN  << [field |-> "Task ID", value |-> task.id] >>
        \o Select("Phase", phase_name)
        \o Select("User Story", us_value)
        \o Select("Parallel", parallel_value)
        \o Select("Priority", "N/A")

\* line 286: p.number is an int, phase_number a piece of the key, a str;
\* Python never finds the two equal
IntEqualsStr(n, s) == FALSE

\* _set_group_field_values (lines 307-324)
GroupFieldValues(phase, ids) ==
    IF PhaseTitle(phase) \in DOMAIN Get(ids, "Phase_options", EmptyMap)
    THEN << [field |-> "Phase", value |-> ids["Phase_options"][PhaseTitle(phase)]] >>
    ELSE << >>

(***************************************************************************)
(* sync_engine.py: _calculate_hash and the timestamp of line 157.  The     *)
(* digest is one-to-one on the documents; the clock is the invocation.     *)
(***************************************************************************)
CalculateHash(d) == "sha256:" \o d.title

Timestamp(n) == "T" \o ToString(n) \o "Z"

(***************************************************************************)
(* SyncEngine.sync_tasks_to_project (sync_engine.py, lines 33-165), one    *)
(* action per remote call or per iteration of a loop.                      *)
(***************************************************************************)
hb_locals == << idx, existing_issues_by_title, project_issue_ids, phase_issue,
                group_issue, phase_issues, group_issues, task_issues >>
invocation == << doc, results, run, outcomes, kw >>

EngineCall(op, step, id, title, ok) == Call(op, step, id, NoId, title, ok)

\* the keyword arguments a caller passes besides tasks_file, config and
\* project_root (cli.py, lines 219-233; the tests, lines 180-185)
Keywords == {"none", "dry_run=True", "dry_run=False"}

\* the signature (lines 33-38) has the three parameters only: a call with
\* any other keyword raises TypeError before the body runs
AcceptsKeywords(k) == k = "none"

\* the caller loads the configuration (cli.py, line 162) and calls the engine
E_Invoke(k) ==
    /\ eng \in {"idle", "done", "failed", "type_error"}
    /\ run < MaxRuns
    /\ run' = run + 1
    /\ outcomes' = IF run = 0 THEN outcomes
                   ELSE Append(outcomes, [eng |-> eng, kw |-> kw, calls |-> calls])
    /\ kw' = k
    /\ config' = LoadConfig(disk)
    /\ calls' = << >>
    /\ eng' = IF AcceptsKeywords(k) THEN "resolve" ELSE "type_error"
    /\ hpc' = "idle"
    /\ sub' = 1
    /\ project_id' = NoId
    /\ UNCHANGED << repo_issues, projects, remote_rest, hb_locals, doc, results, faults,
                    disk, user_stories, existing_fields, field_ids >>
    /\ UNCHANGED unit

\* lines 62-67: _get_repository_info
E_GetRepositoryInfo(f) ==
    /\ eng = "resolve"
    /\ Fault(f, 1)
    /\ calls' = Append(calls, EngineCall("GetRepository", "resolve", NoId, "", f = 0))
    /\ IF f = 0 THEN eng' = NextStep(eng) /\ UNCHANGED hpc ELSE Raised
    /\ UNCHANGED << repo_issues, projects, remote_rest, hb_locals, invocation, project_id,
                    disk, config, sub, user_stories, existing_fields, field_ids >>
    /\ UNCHANGED unit

\* mutant: the project of the configuration is not looked at
ReuseProject_Never(cfg) == FALSE

\* line 73
ReuseProject(cfg) == cfg.project_id # NoId

\* lines 69-92: the project of the configuration, or a new one whose id is
\* written to the configuration file at once
E_CreateOrReuseProject(f) ==
    /\ eng = "project"
    /\ IF ReuseProject(config)
       THEN /\ Fault(f, 0)
            /\ project_id' = config.project_id
            /\ eng' = NextStep(eng)
            /\ UNCHANGED << projects, config, disk, calls, hpc >>
       ELSE /\ Fault(f, 1)
            /\ IF f = 0
               THEN LET id == Len(projects) + 1
                        cfg == [config EXCEPT !.project_id = id]
                    IN  /\ projects' = Append(projects, [items |-> << >>, fields |-> EmptyMap])
                        /\ project_id' = id
                        /\ config' = cfg
                        /\ disk' = SaveConfig(disk, cfg)
                        /\ calls' = calls \o
                              << EngineCall("createProjectV2", "project", id, "", TRUE),
                                 EngineCall("save_config", "project", id, "", TRUE) >>
                        /\ eng' = NextStep(eng)
                        /\ UNCHANGED hpc
               ELSE /\ calls' = Append(calls,
                                       EngineCall("createProjectV2", "project", NoId, "", FALSE))
                    /\ Raised
                    /\ UNCHANGED << projects, project_id, config, disk >>
    /\ sub' = 0
    /\ UNCHANGED << repo_issues, remote_rest, hb_locals, invocation, user_stories,
                    existing_fields, field_ids >>
    /\ UNCHANGED unit

\* lines 97-102 and setup_custom_fields, line 93: the fields of the project
E_GetExistingFields(f) ==
    /\ eng = "fields"
    /\ sub = 0
    /\ Fault(f, 1)
    /\ calls' = Append(calls, EngineCall("GetProjectFields", "fields", project_id, "", f = 0))
    /\ IF f = 0
       THEN /\ user_stories' \in Orderings(UserStories(doc))
            /\ existing_fields' = projects[project_id].fields
            /\ field_ids' = EmptyMap
            /\ sub' = 1
            /\ UNCHANGED << eng, hpc >>
       ELSE Raised /\ UNCHANGED << user_stories, existing_fields, field_ids, sub >>
    /\ UNCHANGED << repo_issues, projects, remote_rest, hb_locals, invocation, project_id,
                    disk, config >>
    /\ UNCHANGED unit

\* mutant: the fields of the project are not looked at
FieldExists_Never(name, existing) == FALSE

\* setup_custom_fields, lines 101, 109, 126, 143 and 160: `name in existing_fields`
FieldExists(name, existing) == name \in DOMAIN existing

\* setup_custom_fields, lines 97-175: a field that exists is reused, another
\* one is created
E_SetupField(f) ==
    /\ eng = "fields"
    /\ sub \in DOMAIN FieldNames
    /\ LET name == FieldNames[sub]
           created == RemoteField(project_id, name,
                                  FieldOptions(name, PhaseNames(doc), user_stories))
       IN  IF FieldExists(name, existing_fields)
           THEN /\ Fault(f, 0)
                /\ field_ids' = WithField(field_ids, name, existing_fields[name])
                /\ sub' = sub + 1
                /\ UNCHANGED << projects, calls, eng, hpc >>
           ELSE /\ Fault(f, 1)
                /\ calls' = Append(calls,
                        EngineCall("createProjectV2Field", "fields", project_id, name, f = 0))
                /\ IF f = 0
                   THEN /\ projects' = [projects EXCEPT
                                           ![project_id].fields = Put(@, name, created)]
                        /\ field_ids' = WithField(field_ids, name, created)
                        /\ sub' = sub + 1
                        /\ UNCHANGED << eng, hpc >>
                   ELSE Raised /\ UNCHANGED << projects, field_ids, sub >>
    /\ UNCHANGED << repo_issues, remote_rest, hb_locals, invocation, project_id, disk,
                    config, user_stories, existing_fields >>
    /\ UNCHANGED unit

\* lines 110-112: the field ids are written to the configuration file
E_StoreFieldIds ==
    /\ eng = "fields"
    /\ sub = Len(FieldNames) + 1
    /\ config' = [config EXCEPT !.field_ids = field_ids]
    /\ disk' = SaveConfig(disk, config')
    /\ calls' = Append(calls, EngineCall("save_config", "fields", project_id, "", TRUE))
    /\ eng' = NextStep(eng)
    /\ sub' = 1
    /\ UNCHANGED << repo_issues, projects, remote_rest, hb_locals, invocation, project_id,
                    hpc, faults, user_stories, existing_fields, field_ids >>
    /\ UNCHANGED unit

\* mutant: what the call raises leaves create_labels
CreateLabelRaises_Propagates(f) == f # 0

\* _create_label_safe, lines 88-90: `except Exception: pass`
CreateLabelRaises(f) == FALSE

\* create_labels and _create_label_safe (issue_manager.py, lines 32-90):
\* whatever the call raises is swallowed
E_CreateLabel(f) ==
    /\ eng = "labels"
    /\ sub \in DOMAIN LabelNames(doc, user_stories)
    /\ Fault(f, 1)
    /\ LET name == LabelNames(doc, user_stories)[sub]
           ok == f = 0 /\ name \notin labels
       IN  /\ calls' = Append(calls, EngineCall("createLabel", "labels", NoId, name, ok))
           /\ labels' = IF ok THEN labels \cup {name} ELSE labels
    /\ IF CreateLabelRaises(f)
       THEN Raised /\ UNCHANGED sub
       ELSE sub' = sub + 1 /\ UNCHANGED << eng, hpc >>
    /\ UNCHANGED << repo_issues, projects, links, field_values, hb_locals, invocation,
                    project_id, disk, config, user_stories, existing_fields, field_ids >>
    /\ UNCHANGED unit

\* lines 121-127: a new HierarchyBuilder, and create_hierarchy
E_CreateHierarchy ==
    /\ eng = "hierarchy"
    /\ hpc = "idle"
    /\ HB_Enter
    /\ UNCHANGED << repo_issues, projects, remote_rest, invocation, project_id, eng,
                    calls, faults, sub, engine >>
    /\ UNCHANGED unit

\* the calls of one iteration of set_field_values_all: the item lookup, then
\* one updateProjectV2ItemFieldValue per value; call number f raises
FieldValueCalls(issue_id, values, f) ==
    << EngineCall("GetProjectItemId", "values", issue_id, "", f # 1) >>
    \o [i \in 1..(IF f = 0 THEN Len(values) ELSE f - 1) |->
          EngineCall("updateProjectV2ItemFieldValue", "values", issue_id,
                     values[i].field, f # i + 1)]

\* the values that reached the service
StoreFieldValues(stored, project, item_id, values, f) ==
    LET done == IF f = 0 THEN Len(values) ELSE f - 2
        keys == {<< project, item_id, values[i].field >> : i \in 1..done}
    IN  [k \in (DOMAIN stored) \cup keys |->
            IF k \in keys
            THEN LET i == CHOOSE j \in 1..done : values[j].field = k[3] IN values[i].value
            ELSE stored[k]]

\* set_field_values_all, lines 220-258: the fields of one task issue
E_SetTaskFieldValues(f) ==
    /\ eng = "values"
    /\ sub \in DOMAIN TaskKeysOf[doc]
    /\ LET task_id == TaskKeysOf[doc][sub]
           issue_id == task_issues[task_id]
           item_id == ProjectItemId(projects[project_id].items, repo_issues[issue_id].number)
           task == FirstWhere(SelectSeq(AllTasksOf[doc], LAMBDA t : t.id = task_id), NoTask)
           phase == FirstWhere(SelectSeq(doc.phases, LAMBDA p : p.number = task.phase_number), NoPhase)
           group == IF task.group_title # ""
                    THEN FirstWhere(SelectSeq(phase.groups, LAMBDA g : g.title = task.group_title),
                                    NoGroup)
                    ELSE NoGroup
           values == IF item_id = 0 \/ task = NoTask \/ phase = NoPhase THEN << >>
                     ELSE TaskFieldValues(task, phase, group, field_ids)
       IN  /\ Fault(f, 1 + Len(values))
           /\ calls' = calls \o FieldValueCalls(issue_id, values, f)
           /\ field_values' = IF f = 1 THEN field_values
                              ELSE StoreFieldValues(field_values, project_id, item_id, values, f)
    /\ IF f = 0 THEN sub' = sub + 1 /\ UNCHANGED << eng, hpc >> ELSE Raised /\ UNCHANGED sub
    /\ UNCHANGED << repo_issues, projects, labels, links, hb_locals, invocation, project_id,
                    disk, config, user_stories, existing_fields, field_ids >>
    /\ UNCHANGED unit

\* set_field_values_all, lines 262-302: the Phase field of one group issue
E_SetGroupFieldValues(f) ==
    /\ eng = "group_values"
    /\ sub \in DOMAIN GroupKeyPartsOf[doc]
    /\ LET parts == GroupKeyPartsOf[doc][sub]
           issue_id == group_issues[parts.phase_number \o ":" \o parts.group_title]
           item_id == ProjectItemId(projects[project_id].items, repo_issues[issue_id].number)
           phase == FirstWhere(SelectSeq(doc.phases,
                                        LAMBDA p : IntEqualsStr(p.number, parts.phase_number)),
                               NoPhase)
           group == FirstWhere(SelectSeq(phase.groups, LAMBDA g : g.title = parts.group_title),
                               NoGroup)
           values == IF item_id = 0 \/ phase = NoPhase \/ group = NoGroup THEN << >>
                     ELSE GroupFieldValues(phase, field_ids)
       IN  /\ Fault(f, 1 + Len(values))
           /\ calls' = calls \o FieldValueCalls(issue_id, values, f)
           /\ field_values' = IF f = 1 THEN field_values
                              ELSE StoreFieldValues(field_values, project_id, item_id, values, f)
    /\ IF f = 0 THEN sub' = sub + 1 /\ UNCHANGED << eng, hpc >> ELSE Raised /\ UNCHANGED sub
    /\ UNCHANGED << repo_issues, projects, labels, links, hb_locals, invocation, project_id,
                    disk, config, user_stories, existing_fields, field_ids >>
    /\ UNCHANGED unit

(***************************************************************************)
(* IssueManager.sync_completion_states(doc, task_issue_map), called at     *)
(* lines 145-148: for a task that has an issue, the state the issue is to  *)
(* have, and whether an update is due.                                     *)
(***************************************************************************)
\* mutant: every issue is to be closed
WantedState_Closed(task) == "CLOSED"

WantedState(task) == IF task.is_completed THEN "CLOSED" ELSE "OPEN"

\* the state of an issue, case-normalized
Upper(state) == IF state = "closed" THEN "CLOSED" ELSE IF state = "open" THEN "OPEN" ELSE state

NeedsStateUpdate(task, issue) == Upper(issue.state) # WantedState(task)

E_SyncCompletionState(f) ==
    /\ eng = "completion"
    /\ sub \in DOMAIN AllTasksOf[doc]
    /\ LET task == AllTasksOf[doc][sub]
           known == task.id \in DOMAIN task_issues
           issue_id == IF known THEN task_issues[task.id] ELSE NoId
           due == known /\ NeedsStateUpdate(task, repo_issues[issue_id])
       IN  /\ Fault(f, IF due THEN 1 ELSE 0)
           /\ calls' = IF due
                       THEN Append(calls, EngineCall("updateIssue", "completion", issue_id,
                                                     WantedState(task), f = 0))
                       ELSE calls
           /\ repo_issues' = IF due /\ f = 0
                             THEN [repo_issues EXCEPT ![issue_id].state = WantedState(task)]
                             ELSE repo_issues
    /\ IF f = 0 THEN sub' = sub + 1 /\ UNCHANGED << eng, hpc >> ELSE Raised /\ UNCHANGED sub
    /\ UNCHANGED << projects, remote_rest, hb_locals, invocation, project_id, disk, config,
                    user_stories, existing_fields, field_ids >>
    /\ UNCHANGED unit

(***************************************************************************)
(* IssueManager.create_dependencies (issue_manager.py, lines 492-544): one *)
(* (dependent, blocker) pair.  The service refuses a link that exists with *)
(* an "already ... block" error, which is swallowed; any other error is    *)
(* raised again.                                                           *)
(***************************************************************************)
\* the messages of the errors an addBlockedBy call can end with
LinkExistsMessage == "Issue is already blocked by this issue"

OtherErrorMessage == "Resource not accessible by integration"

\* further messages: the two words in capitals, in the other order, and one
\* of the two words alone
CapitalsMessage == "GraphQL errors: Already Blocked"

ReversedMessage == "blocking relation already exists"

AlreadyOnlyMessage == "GraphQL errors: already exists"

BlockOnlyMessage == "GraphQL errors: issue is blocked"

ErrorMessages ==
    {LinkExistsMessage, OtherErrorMessage, CapitalsMessage, ReversedMessage,
     AlreadyOnlyMessage, BlockOnlyMessage}

\* str(exc): the characters of a message
MessageText(message) ==
    CASE message = LinkExistsMessage ->
        <<
                "I", "s", "s", "u", "e", " ", "i", "s", " ", "a", "l", "r", "e", "a",
                "d", "y", " ", "b", "l", "o", "c", "k", "e", "d", " ", "b", "y", " ",
                "t", "h", "i", "s", " ", "i", "s", "s", "u", "e" >>
      [] message = OtherErrorMessage ->
        <<
                "R", "e", "s", "o", "u", "r", "c", "e", " ", "n", "o", "t", " ", "a",
                "c", "c", "e", "s", "s", "i", "b", "l", "e", " ", "b", "y", " ", "i",
                "n", "t", "e", "g", "r", "a", "t", "i", "o", "n" >>
      [] message = CapitalsMessage ->
        <<
                "G", "r", "a", "p", "h", "Q", "L", " ", "e", "r", "r", "o", "r", "s",
                ":", " ", "A", "l", "r", "e", "a", "d", "y", " ", "B", "l", "o", "c",
                "k", "e", "d" >>
      [] message = ReversedMessage ->
        <<
                "b", "l", "o", "c", "k", "i", "n", "g", " ", "r", "e", "l", "a", "t",
                "i", "o", "n", " ", "a", "l", "r", "e", "a", "d", "y", " ", "e", "x",
                "i", "s", "t", "s" >>
      [] message = AlreadyOnlyMessage ->
        <<
                "G", "r", "a", "p", "h", "Q", "L", " ", "e", "r", "r", "o", "r", "s",
                ":", " ", "a", "l", "r", "e", "a", "d", "y", " ", "e", "x", "i", "s",
                "t", "s" >>
      [] message = BlockOnlyMessage ->
        <<
                "G", "r", "a", "p", "h", "Q", "L", " ", "e", "r", "r", "o", "r", "s",
                ":", " ", "i", "s", "s", "u", "e", " ", "i", "s", " ", "b", "l", "o",
                "c", "k", "e", "d" >>
      [] OTHER -> << >>

UpperCase == << "A", "B", "C", "D", "E", "F", "G", "H", "I", "J", "K", "L", "M",
               "N", "O", "P", "Q", "R", "S", "T", "U", "V", "W", "X", "Y", "Z" >>

LowerCase == << "a", "b", "c", "d", "e", "f", "g", "h", "i", "j", "k", "l", "m",
               "n", "o", "p", "q", "r", "s", "t", "u", "v", "w", "x", "y", "z" >>

\* str.lower on the characters of a text
LowerText(text) ==
    [i \in DOMAIN text |->
        IF \E k \in DOMAIN UpperCase : UpperCase[k] = text[i]
        THEN LowerCase[CHOOSE k \in DOMAIN UpperCase : UpperCase[k] = text[i]]
        ELSE text[i]]

\* `part in text`
Contains(text, part) ==
    \E k \in 0..(Len(text) - Len(part)) : SubSeq(text, k + 1, k + Len(part)) = part

\* mutant: the message is searched as it is, capitals included
AlreadyBlocks_CaseSensitive(message) ==
    /\ Contains(MessageText(message), << "a", "l", "r", "e", "a", "d", "y" >>)
    /\ Contains(MessageText(message), << "b", "l", "o", "c", "k" >>)

\* lines 535-538: the lower-cased message holds "already" and "block"
AlreadyBlocks(message) ==
    /\ Contains(LowerText(MessageText(message)), << "a", "l", "r", "e", "a", "d", "y" >>)
    /\ Contains(LowerText(MessageText(message)), << "b", "l", "o", "c", "k" >>)

\* the messages create_dependencies swallows
SwallowedMessages == {message \in ErrorMessages : AlreadyBlocks(message)}

E_CreateDependency(f) ==
    /\ eng = "deps"
    /\ sub \in DOMAIN DependencyEdgesOf[doc]
    /\ LET edge == DependencyEdgesOf[doc][sub]
           known == edge.task_id \in DOMAIN task_issues /\ edge.blocker \in DOMAIN task_issues
           issue_id == IF known THEN task_issues[edge.task_id] ELSE NoId
           blocking == IF known THEN task_issues[edge.blocker] ELSE NoId
           error == IF ~known THEN ""
                    ELSE IF f = 1 THEN OtherErrorMessage
                    ELSE IF << issue_id, blocking >> \in links THEN LinkExistsMessage
                    ELSE ""
       IN  /\ Fault(f, IF known THEN 1 ELSE 0)
           /\ calls' = IF known
                       THEN Append(calls, Call("addBlockedBy", "deps", issue_id, blocking,
                                               error, error = ""))
                       ELSE calls
           /\ links' = IF known /\ error = ""
                       THEN links \cup {<< issue_id, blocking >>}
                       ELSE links
           /\ IF error = "" \/ error \in SwallowedMessages
              THEN sub' = sub + 1 /\ UNCHANGED << eng, hpc >>
              ELSE Raised /\ UNCHANGED sub
    /\ UNCHANGED << repo_issues, projects, labels, field_values, hb_locals, invocation,
                    project_id, disk, config, user_stories, existing_fields, field_ids >>
    /\ UNCHANGED unit

\* a loop of the pipeline has no element left: the next step starts
LoopLen(step) ==
    CASE step = "labels" -> Len(LabelNames(doc, user_stories))
      [] step = "values" -> Len(TaskKeysOf[doc])
      [] step = "group_values" -> Len(GroupKeyPartsOf[doc])
      [] step = "completion" -> Len(AllTasksOf[doc])
      [] step = "deps" -> Len(DependencyEdgesOf[doc])
      [] OTHER -> 0

E_StepDone ==
    /\ eng \in {"labels", "values", "group_values", "completion", "deps"}
    /\ sub = LoopLen(eng) + 1
    /\ eng' = NextStep(eng)
    /\ sub' = 1
    /\ UNCHANGED << repo_issues, projects, remote_rest, hb_locals, invocation, project_id,
                    hpc, calls, faults, engine >>
    /\ UNCHANGED unit

\* mutant: the time of the sync is kept, the hash is not
SyncState_TimeOnly(cfg, content_hash, now) == [cfg EXCEPT !.last_synced_at = now]

\* lines 156-158: the sync state of the configuration
SyncState(cfg, content_hash, now) ==
    [cfg EXCEPT !.last_synced_at = now, !.last_synced_tasks_md_hash = content_hash]

\* mutant: a project is all that is asked for
NeedsSync_ProjectOnly(content, cfg) == cfg.project_id = NoId

\* SyncEngine.needs_sync (lines 177-200) on the content of the tasks file
NeedsSync(content, cfg) ==
    IF cfg.project_id = NoId THEN TRUE
    ELSE IF cfg.last_synced_tasks_md_hash = "" THEN TRUE
    ELSE CalculateHash(content) # cfg.last_synced_tasks_md_hash

\* lines 154-165: hash and time of the sync are written, the configuration
\* is returned
E_Persist ==
    /\ eng = "persist"
    /\ config' = SyncState(config, CalculateHash(doc), Timestamp(run))
    /\ disk' = SaveConfig(disk, config')
    /\ calls' = Append(calls, EngineCall("save_config", "persist", project_id, "", TRUE))
    /\ eng' = NextStep(eng)
    /\ UNCHANGED << repo_issues, projects, remote_rest, hb_locals, invocation, project_id,
                    hpc, faults, sub, user_stories, existing_fields, field_ids >>
    /\ UNCHANGED unit

(***************************************************************************)
(* The sync engine: up to MaxRuns invocations on one document, each with   *)
(* the configuration the one before left on disk; up to MaxFaults remote   *)
(* calls raise.                                                            *)
(***************************************************************************)
EngineDocs == {DocSync}

\* the repository before the first sync: empty, or with a stale issue that has
\* the title of the first phase
EnginePre(d) == {<< >>, << [title |-> PhaseTitle(d.phases[1]), body |-> "stale"] >>}

Init ==
    /\ doc \in EngineDocs
    /\ \E pre \in EnginePre(doc) :
          repo_issues = [i \in DOMAIN pre |-> RemoteIssue(i, pre[i].title, pre[i].body, NoId)]
    /\ projects = << >>
    /\ project_id = NoId
    /\ eng = "idle"
    /\ InitBuilderIdle
    /\ InitUnitIdle
    /\ labels = {}
    /\ links = {}
    /\ field_values = EmptyMap
    /\ disk = NoFile
    /\ config = DefaultConfig
    /\ kw = "none"

Next ==
    \/ \E k \in Keywords : E_Invoke(k)
    \/ \E f \in 0..1 : E_GetRepositoryInfo(f)
    \/ \E f \in 0..1 : E_CreateOrReuseProject(f)
    \/ \E f \in 0..1 : E_GetExistingFields(f)
    \/ \E f \in 0..1 : E_SetupField(f)
    \/ E_StoreFieldIds
    \/ \E f \in 0..1 : E_CreateLabel(f)
    \/ E_CreateHierarchy
    \/ \E f \in 0..1 : HB_LoadExistingIssues(f)
    \/ \E f \in 0..1 : HB_LoadProjectIssueIds(f)
    \/ \E f \in 0..2 : HB_CreateIssue(f)
    \/ HB_Return
    \/ \E f \in 0..6 : E_SetTaskFieldValues(f)
    \/ \E f \in 0..2 : E_SetGroupFieldValues(f)
    \/ \E f \in 0..1 : E_SyncCompletionState(f)
    \/ \E f \in 0..1 : E_CreateDependency(f)
    \/ E_StepDone
    \/ E_Persist

Spec == Init /\ [][Next]_vars

(***************************************************************************)
(* build_dependency_graph, DependencyGraph.add_dependency and              *)
(* IssueManager.create_dependencies called on their own, as the tests call *)
(* them (tests/test_github_projects_sync.py, lines 502-529): a graph is    *)
(* built from a document or filled by hand, then linked with a task-issue  *)
(* map the caller supplies.                                                *)
(***************************************************************************)
\* tasks of one phase of a document the graph is built from
MaxTasks == 3
\* add_dependency calls on a graph filled by hand
MaxAdds == 3

\* a task id of the form the parser accepts (tasks_parser.py, line 17)
TaskId(n) == "T00" \o ToString(n)

\* the parallel flags of the tasks of a phase, in document order
Shapes == UNION { [1..n -> BOOLEAN] : n \in 0..MaxTasks }

\* a phase whose tasks carry the flags: the first task is a direct task, the
\* others are the tasks of one group, ids count on from `first`
ShapePhase(number, flags, first) ==
    LET tasks == [i \in DOMAIN flags |->
                    Task(TaskId(first + i - 1), "Task", FALSE, flags[i], << >>, number,
                         IF i = 1 THEN "" ELSE "Core")]
    IN  Phase(number, "Phase", "",
              IF Len(tasks) > 1 THEN << StoryGroup("Core", "", Tail(tasks)) >> ELSE << >>,
              IF Len(tasks) > 0 THEN << Head(tasks) >> ELSE << >>)

RECURSIVE TasksBefore(_, _)
TasksBefore(shapes, pi) == IF pi = 1 THEN 0 ELSE TasksBefore(shapes, pi - 1) + Len(shapes[pi - 1])

ShapeDoc(shapes) ==
    TasksDocument("Shapes",
        [pi \in DOMAIN shapes |-> ShapePhase(pi, shapes[pi], 1 + TasksBefore(shapes, pi))])

\* two phases, and two phases with a phase without tasks between them
GraphDocs ==
    { ShapeDoc(<< a, b >>) : a, b \in Shapes }
        \cup { ShapeDoc(<< a, << >>, b >>) : a, b \in Shapes }

\* no document: the graph is filled by hand
NoDocument == TasksDocument("", << >>)

\* the tasks add_dependency is called with by hand, and the tasks a caller's
\* map may lack
HandTasks == {TaskId(1), TaskId(2), TaskId(3)}

\* the tasks that are given blockers by hand
HandDependents == {TaskId(2), TaskId(3)}

\* the issue of a task in the maps of the callers: {"id": "ISSUE_n"} for T00n
IssueNumber(task_id) == CHOOSE n \in 1..9 : TaskId(n) = task_id

IssueRecord(n, state) == [id |-> n, number |-> n, state |-> state]

\* every task has an open issue, but for the tasks of `missing`
IssueMap(missing) ==
    [t \in {TaskId(n) : n \in 1..9} \ missing |-> IssueRecord(IssueNumber(t), "OPEN")]

\* build_dependency_graph(document)
G_Build ==
    /\ upc = "document"
    /\ dep_graph' = BuildDependencyGraph(doc)
    /\ upc' = "graph"
    /\ UNCHANGED << repo_issues, projects, doc, project_id, eng, builder, calls, results,
                    run, faults, outcomes, sub, remote_rest, engine, added, task_issue_map,
                    created_links, skipped_links >>
    /\ UNCHANGED << paging, parser, lookup, client >>

\* graph.add_dependency(task_id, depends_on)
G_AddDependency(task_id, depends_on) ==
    /\ upc = "by_hand"
    /\ Len(added) < MaxAdds
    /\ dep_graph' = AddDependency(dep_graph, task_id, depends_on)
    /\ added' = Append(added, << task_id, depends_on >>)
    /\ UNCHANGED << repo_issues, projects, doc, project_id, eng, builder, calls, results,
                    run, faults, outcomes, sub, remote_rest, engine, task_issue_map,
                    created_links, skipped_links, upc >>
    /\ UNCHANGED << paging, parser, lookup, client >>

\* task_issue_map.get(task_id): None is an issue without id
NoIssue == IssueRecord(NoId, "")

\* mutant: only the dependent task is looked up
EdgeIsLinkable_DependentOnly(map, edge) == edge.task_id \in DOMAIN map

\* create_dependencies, lines 511-522: both tasks of the edge have an issue
EdgeIsLinkable(map, edge) == edge.task_id \in DOMAIN map /\ edge.blocker \in DOMAIN map

\* mutant: the two issues change places
LinkVariables_Swapped(dependent_issue, blocker_issue) ==
    [issueId |-> blocker_issue.id, blockingIssueId |-> dependent_issue.id]

\* create_dependencies, lines 524-529: the input of the mutation
LinkVariables(dependent_issue, blocker_issue) ==
    [issueId |-> dependent_issue.id, blockingIssueId |-> blocker_issue.id]

\* the locals of create_dependencies when it starts
LinkStart(remote_links) ==
    [calls |-> << >>, links |-> remote_links, created_links |-> 0, skipped_links |-> 0,
     raised |-> FALSE]

\* create_dependencies, lines 510-539: the edges from position i on; the
\* f-th request is refused with the error `refusal`
RECURSIVE LinkDependencies(_, _, _, _, _, _)
LinkDependencies(edges, i, map, st, f, refusal) ==
    IF i > Len(edges) \/ st.raised THEN st
    ELSE IF ~EdgeIsLinkable(map, edges[i])
    THEN LinkDependencies(edges, i + 1, map, [st EXCEPT !.skipped_links = @ + 1], f,
                          refusal)
    ELSE LET variables == LinkVariables(Get(map, edges[i].task_id, NoIssue),
                                        Get(map, edges[i].blocker, NoIssue))
             link == << variables.issueId, variables.blockingIssueId >>
             error == IF Len(st.calls) + 1 = f THEN refusal
                      ELSE IF link \in st.links THEN LinkExistsMessage
                      ELSE ""
             logged == Append(st.calls, Call("addBlockedBy", "deps", variables.issueId,
                                             variables.blockingIssueId, error, error = ""))
         IN  LinkDependencies(edges, i + 1, map,
                 IF error = ""
                 THEN [st EXCEPT !.calls = logged, !.links = @ \cup {link},
                                 !.created_links = @ + 1]
                 ELSE IF error \in SwallowedMessages
                 THEN [st EXCEPT !.calls = logged, !.skipped_links = @ + 1]
                 ELSE [st EXCEPT !.calls = logged, !.raised = TRUE],
                 f, refusal)

\* manager.create_dependencies(graph, task_issue_map), the whole call; a
\* request is refused only in calls whose map has an issue for every task
D_CreateDependencies(missing, f, refusal) ==
    /\ upc \in {"graph", "by_hand"}
    /\ f # 0 => faults < MaxFaults /\ missing = {}
    /\ f = 0 => refusal = OtherErrorMessage
    /\ LET map == IssueMap(missing)
           st == LinkDependencies(DependencyEdges(dep_graph), 1, map, LinkStart(links), f,
                                  refusal)
       IN  /\ f # 0 => f <= Len(st.calls)
           /\ faults' = IF f = 0 THEN faults ELSE faults + 1
           /\ task_issue_map' = map
           /\ calls' = st.calls
           /\ links' = st.links
           /\ created_links' = st.created_links
           /\ skipped_links' = st.skipped_links
           /\ upc' = IF st.raised THEN "raised" ELSE "linked"
    /\ UNCHANGED << repo_issues, projects, doc, project_id, eng, builder, results, run,
                    outcomes, sub, labels, field_values, engine, dep_graph, added >>
    /\ UNCHANGED << paging, parser, lookup, client >>

\* nothing of the sync is under way
InitSyncIdle ==
    /\ repo_issues = << >>
    /\ projects = << >>
    /\ project_id = NoId
    /\ eng = "idle"
    /\ InitBuilderIdle
    /\ labels = {}
    /\ field_values = EmptyMap
    /\ disk = NoFile
    /\ config = DefaultConfig
    /\ kw = "none"

\* the link "T002 is blocked by T001" may exist already
InitG ==
    /\ \/ doc \in GraphDocs /\ upc = "document"
       \/ doc = NoDocument /\ upc = "by_hand"
    /\ links \in {{}, {<< IssueNumber(TaskId(2)), IssueNumber(TaskId(1)) >>}}
    /\ InitSyncIdle
    /\ dep_graph = << >>
    /\ added = << >>
    /\ task_issue_map = EmptyMap
    /\ created_links = 0
    /\ skipped_links = 0
    /\ InitPagingIdle
    /\ InitParserIdle

NextG ==
    \/ G_Build
    \/ \E task_id \in HandDependents, depends_on \in HandTasks :
          G_AddDependency(task_id, depends_on)
    \/ \E missing \in SUBSET HandTasks, f \in 0..(2 * MaxTasks), refusal \in ErrorMessages :
          D_CreateDependencies(missing, f, refusal)

SpecG == InitG /\ [][NextG]_vars

(***************************************************************************)
(* IssueManager.sync_completion_states(doc, task_issue_map) called on its  *)
(* own, as tests/test_github_projects_sync.py, lines 446-495, call it: the *)
(* map holds the issue records the caller has cached, the call updates the *)
(* issues whose state differs and the cached records with them.            *)
(***************************************************************************)
\* one phase of tasks with the completion flags, all direct tasks
CompletionDoc(flags) ==
    TasksDocument("Completion State",
        << Phase(1, "Setup", "", << >>,
                 [i \in DOMAIN flags |->
                    Task(TaskId(i), "Task", flags[i], FALSE, << >>, 1, "")]) >>)

CompletionDocs == { CompletionDoc(flags) : flags \in Shapes }

\* the state a cached record may carry; "" stands for a task without issue
CachedStates == {"", "OPEN", "CLOSED", "closed"}

\* the maps a caller hands over for n tasks: T00i has issue i or none
CachedMaps(n) ==
    { [t \in {TaskId(i) : i \in {j \in 1..n : states[j] # ""}} |->
          IssueRecord(IssueNumber(t), states[IssueNumber(t)])] :
      states \in [1..n -> CachedStates] }

\* mutant: the cached record keeps the state it had
CacheState_Stale(map, task_id, state) == map

\* the cached record takes the new state
CacheState(map, task_id, state) == [map EXCEPT ![task_id].state = state]

\* the locals of sync_completion_states when it starts
SyncStart(map) == [calls |-> << >>, map |-> map, skipped |-> 0]

\* the tasks from position i on: a task without issue is counted as skipped, a
\* task whose issue has the state it is to have is left alone, any other issue
\* is updated, and its cached record with it
RECURSIVE SyncCompletionStates(_, _, _)
SyncCompletionStates(all_tasks, i, st) ==
    IF i > Len(all_tasks) THEN st
    ELSE LET task == all_tasks[i] IN
         IF task.id \notin DOMAIN st.map
         THEN SyncCompletionStates(all_tasks, i + 1, [st EXCEPT !.skipped = @ + 1])
         ELSE IF ~NeedsStateUpdate(task, st.map[task.id])
         THEN SyncCompletionStates(all_tasks, i + 1, st)
         ELSE SyncCompletionStates(all_tasks, i + 1,
                 [st EXCEPT !.calls = Append(@, EngineCall("updateIssue", "completion",
                                                           st.map[task.id].id,
                                                           WantedState(task), TRUE)),
                            !.map = CacheState(@, task.id, WantedState(task))])

\* the service takes the updates of a call
UpdatedIssues(issues, updates) ==
    [i \in DOMAIN issues |->
        LET mine == SelectSeq(updates, LAMBDA c : c.id = issues[i].id)
        IN  IF mine = << >> THEN issues[i]
            ELSE [issues[i] EXCEPT !.state = mine[Len(mine)].title]]

\* manager.sync_completion_states(doc, task_issue_map), the whole call
S_SyncCompletionStates ==
    /\ upc = "states"
    /\ run < MaxRuns
    /\ run' = run + 1
    /\ LET st == SyncCompletionStates(DocAllTasks(doc), 1, SyncStart(task_issue_map))
       IN  /\ calls' = st.calls
           /\ task_issue_map' = st.map
           /\ repo_issues' = UpdatedIssues(repo_issues, st.calls)
           /\ results' = Append(results, [doc |-> doc, task_issue_map |-> task_issue_map,
                                          calls |-> st.calls, skipped |-> st.skipped])
    /\ UNCHANGED << projects, doc, project_id, eng, hpc, idx, existing_issues_by_title,
                    project_issue_ids, phase_issue, group_issue, phase_issues,
                    group_issues, task_issues, faults, outcomes, sub, remote_rest, engine,
                    dep_graph, added, created_links, skipped_links, upc >>
    /\ UNCHANGED << paging, parser, lookup, client >>

\* the caller edits the document after the first call: the checkbox of a
\* task is toggled
S_ToggleTask(i) ==
    /\ upc = "states"
    /\ run = 1
    /\ doc = results[1].doc
    /\ i \in DOMAIN doc.phases[1].direct_tasks
    /\ doc' = [doc EXCEPT !.phases[1].direct_tasks[i].is_completed = ~@]
    /\ UNCHANGED << repo_issues, projects, project_id, eng, builder, calls, results, run,
                    faults, outcomes, sub, remote_rest, engine, unit >>

\* the remote issues are in the state the cached records tell; an issue no
\* record tells of is open
InitS ==
    /\ doc \in CompletionDocs
    /\ task_issue_map \in CachedMaps(Len(DocAllTasks(doc)))
    /\ repo_issues = [i \in DOMAIN DocAllTasks(doc) |->
                        [RemoteIssue(i, TaskTitle(DocAllTasks(doc)[i]), "", NoId)
                            EXCEPT !.state = IF TaskId(i) \in DOMAIN task_issue_map
                                             THEN Upper(task_issue_map[TaskId(i)].state)
                                             ELSE "OPEN"]]
    /\ projects = << >>
    /\ project_id = NoId
    /\ eng = "idle"
    /\ InitBuilderIdle
    /\ labels = {}
    /\ links = {}
    /\ field_values = EmptyMap
    /\ disk = NoFile
    /\ config = DefaultConfig
    /\ kw = "none"
    /\ dep_graph = << >>
    /\ added = << >>
    /\ created_links = 0
    /\ skipped_links = 0
    /\ InitPagingIdle
    /\ InitParserIdle
    /\ upc = "states"

NextS ==
    \/ S_SyncCompletionStates
    \/ \E i \in 1..MaxTasks : S_ToggleTask(i)

SpecS == InitS /\ [][NextS]_vars

(***************************************************************************)
(* IssueManager.build_project_item_map(project_id) called on its own, as   *)
(* tests/test_github_projects_sync.py, lines 409-429, call it: the items   *)
(* of the project are listed page by page, as _get_project_item_id lists   *)
(* them (issue_manager.py, lines 178-195), and every item that has an      *)
(* issue as content is entered under the number of the issue.              *)
(***************************************************************************)
\* items of the project
MaxItems == 3

\* items of a page of the listing of the service of the tests (line 68)
PageSize == 2

\* the contents of the items of a project: issue ids, NoId for an item
\* without content; an issue is the content of one item at most
Listings ==
    { l \in UNION { [1..n -> 0..MaxItems] : n \in 0..MaxItems } :
        \A i, j \in DOMAIN l : (i # j /\ l[i] # NoId) => l[i] # l[j] }

\* the number of an issue, different from its position in any listing
NumberOf(issue_id) == 10 * issue_id

\* the page after the cursor: items as [id, content, number], content NoId and
\* number 0 for an item without content
PageAfter(listing, after) ==
    [k \in 1..(IF Len(listing) - after < PageSize THEN Len(listing) - after ELSE PageSize) |->
        [id |-> after + k,
         content |-> listing[after + k],
         number |-> IF listing[after + k] = NoId THEN 0 ELSE NumberOf(listing[after + k])]]

\* mutant: the first page is taken for the whole listing
HasNextPage_Never(listing, after) == FALSE

\* pageInfo.hasNextPage of the page after the cursor
HasNextPage(listing, after) == after + PageSize < Len(listing)

\* pageInfo.endCursor of the page after the cursor
EndCursor(listing, after) == after + PageSize

\* the items of a page that have content are entered under their numbers
RECURSIVE WithItems(_, _)
WithItems(map, page) ==
    IF page = << >> THEN map
    ELSE WithItems(IF Head(page).number # 0
                   THEN Put(map, Head(page).number, Head(page).id)
                   ELSE map,
                   Tail(page))

\* manager.build_project_item_map(project_id)
P_BuildProjectItemMap ==
    /\ upc = "items"
    /\ upc' = "paging"
    /\ cursor' = 0
    /\ item_map' = EmptyMap
    /\ calls' = << >>
    /\ UNCHANGED << repo_issues, projects, doc, project_id, eng, builder, results, run,
                    faults, outcomes, sub, remote_rest, engine, dep_graph, added,
                    task_issue_map, created_links, skipped_links >>
    /\ UNCHANGED << parser, lookup, client >>

\* one page is asked for and entered
P_FetchPage ==
    /\ upc = "paging"
    /\ LET listing == projects[project_id].items
           page == PageAfter(listing, cursor)
       IN  /\ calls' = Append(calls, EngineCall("GetProjectItems", "items", cursor, "", TRUE))
           /\ item_map' = WithItems(item_map, page)
           /\ IF HasNextPage(listing, cursor)
              THEN cursor' = EndCursor(listing, cursor) /\ UNCHANGED upc
              ELSE upc' = "returned" /\ UNCHANGED cursor
    /\ UNCHANGED << repo_issues, projects, doc, project_id, eng, builder, results, run,
                    faults, outcomes, sub, remote_rest, engine, dep_graph, added,
                    task_issue_map, created_links, skipped_links >>
    /\ UNCHANGED << parser, lookup, client >>

\* ---- the pagination loops called on their own, one request per step ----

\* a page of the repository's issues after the cursor, PageSize nodes a page
IssuesAfter(issues, after) ==
    SubSeq(issues, after + 1,
           IF Len(issues) - after < PageSize THEN Len(issues) ELSE after + PageSize)

\* pageInfo of the response to a request sent with the cursor
PageInfo(listing, after) ==
    [hasNextPage |-> HasNextPage(listing, after), endCursor |-> EndCursor(listing, after)]

\* mutant: the loop stops after its first page
Continues_OnePage(page_info) == FALSE

\* `if not page_info.get("hasNextPage"): break`
Continues(page_info) == page_info.hasNextPage

\* issues_by_title.setdefault(issue["title"], []).append(issue) for a page
RECURSIVE IndexedWith(_, _)
IndexedWith(index, nodes) ==
    IF nodes = << >> THEN index
    ELSE IndexedWith(IndexWith(index, Head(nodes).title, Head(nodes)), Tail(nodes))

\* issue_ids.add(content["id"]) for the items of a page that have content
WithContentIds(ids, page) == ids \cup ({page[k].content : k \in DOMAIN page} \ {NoId})

\* the id of the first item of a page whose content has the number, as a
\* sequence of at most one id
FirstWithNumber(page, issue_number) ==
    LET hits == {k \in DOMAIN page : page[k].number # 0 /\ page[k].number = issue_number}
    IN  IF hits = {} THEN << >>
        ELSE << page[CHOOSE k \in hits : \A j \in hits : k <= j].id >>

\* the rest of every action of the loops
LoopFrame ==
    UNCHANGED << repo_issues, projects, doc, project_id, eng, hpc, idx, phase_issue,
                 group_issue, phase_issues, group_issues, task_issues, results, run,
                 faults, outcomes, sub, remote_rest, engine, dep_graph, added,
                 task_issue_map, created_links, skipped_links, item_map, parser,
                 client >>

\* _load_existing_issues is called: issues_by_title = {}, cursor = None
P_LoadExistingIssues ==
    /\ upc = "items"
    /\ upc' = "loading_issues"
    /\ cursor' = 0
    /\ existing_issues_by_title' = EmptyMap
    /\ calls' = << >>
    /\ UNCHANGED << project_issue_ids, lookup >>
    /\ LoopFrame

\* one turn of the loop of _load_existing_issues
P_IssuesPage ==
    /\ upc = "loading_issues"
    /\ LET nodes == IssuesAfter(repo_issues, cursor)
           page_info == PageInfo(repo_issues, cursor)
       IN  /\ calls' = Append(calls,
                              EngineCall("GetRepositoryIssues", "issues", cursor, "", TRUE))
           /\ existing_issues_by_title' = IndexedWith(existing_issues_by_title, nodes)
           /\ IF Continues(page_info)
              THEN cursor' = page_info.endCursor /\ UNCHANGED upc
              ELSE upc' = "issues_loaded" /\ UNCHANGED cursor
    /\ UNCHANGED << project_issue_ids, lookup >>
    /\ LoopFrame

\* _load_project_issue_ids is called: issue_ids = set(), cursor = None
P_LoadProjectIssueIds ==
    /\ upc = "items"
    /\ upc' = "loading_ids"
    /\ cursor' = 0
    /\ project_issue_ids' = {}
    /\ calls' = << >>
    /\ UNCHANGED << existing_issues_by_title, lookup >>
    /\ LoopFrame

\* one turn of the loop of _load_project_issue_ids
P_IdsPage ==
    /\ upc = "loading_ids"
    /\ LET listing == projects[project_id].items
           page_info == PageInfo(listing, cursor)
       IN  /\ calls' = Append(calls, EngineCall("GetProjectItems", "ids", cursor, "", TRUE))
           /\ project_issue_ids' = WithContentIds(project_issue_ids, PageAfter(listing, cursor))
           /\ IF Continues(page_info)
              THEN cursor' = page_info.endCursor /\ UNCHANGED upc
              ELSE upc' = "ids_loaded" /\ UNCHANGED cursor
    /\ UNCHANGED << existing_issues_by_title, lookup >>
    /\ LoopFrame

\* _get_project_item_id is called with an issue number: cursor = None
P_GetProjectItemId(issue_no) ==
    /\ upc = "items"
    /\ upc' = "looking_up"
    /\ cursor' = 0
    /\ lookup' = [issue_number |-> issue_no, item_id |-> NoId]
    /\ calls' = << >>
    /\ UNCHANGED << existing_issues_by_title, project_issue_ids >>
    /\ LoopFrame

\* one turn of the loop of _get_project_item_id: the first item of the page
\* with the number is returned at once, else the next page is asked for, and
\* None is returned after the last page
P_LookupPage ==
    /\ upc = "looking_up"
    /\ LET listing == projects[project_id].items
           page_info == PageInfo(listing, cursor)
           found == FirstWithNumber(PageAfter(listing, cursor), lookup.issue_number)
       IN  /\ calls' = Append(calls, EngineCall("GetProjectItemId", "lookup", cursor, "", TRUE))
           /\ IF found # << >>
              THEN /\ lookup' = [lookup EXCEPT !.item_id = found[1]]
                   /\ upc' = "looked_up"
                   /\ UNCHANGED cursor
              ELSE IF Continues(page_info)
              THEN cursor' = page_info.endCursor /\ UNCHANGED << upc, lookup >>
              ELSE upc' = "looked_up" /\ UNCHANGED << cursor, lookup >>
    /\ UNCHANGED << existing_issues_by_title, project_issue_ids >>
    /\ LoopFrame

InitP ==
    /\ doc = NoDocument
    /\ \E last \in {"Issue", "Last"} :
            repo_issues = [i \in 1..MaxItems |->
                            [RemoteIssue(i, IF i = MaxItems THEN last ELSE "Issue", "", NoId)
                                EXCEPT !.number = NumberOf(i)]]
    /\ \E listing \in Listings : projects = << [items |-> listing, fields |-> EmptyMap] >>
    /\ project_id = 1
    /\ eng = "idle"
    /\ InitBuilderIdle
    /\ labels = {}
    /\ links = {}
    /\ field_values = EmptyMap
    /\ disk = NoFile
    /\ config = DefaultConfig
    /\ kw = "none"
    /\ dep_graph = << >>
    /\ added = << >>
    /\ task_issue_map = EmptyMap
    /\ created_links = 0
    /\ skipped_links = 0
    /\ upc = "items"
    /\ InitPagingIdle
    /\ InitParserIdle

NextP ==
    \/ P_BuildProjectItemMap
    \/ P_FetchPage
    \/ P_LoadExistingIssues
    \/ P_IssuesPage
    \/ P_LoadProjectIssueIds
    \/ P_IdsPage
    \/ \E issue_no \in {NumberOf(i) : i \in 1..(MaxItems + 1)} : P_GetProjectItemId(issue_no)
    \/ P_LookupPage

SpecP == InitP /\ [][NextP]_vars

\* ---- setup_custom_fields on a project that an earlier sync has worked on ----

\* a later version of DocSync: a second phase with a second user story
DocSyncGrown ==
    TasksDocument("Sync", <<
        DocSync.phases[1],
        Phase(2, "Build", "",
              << StoryGroup("Api", "US2",
                    << Task("T003", "Add endpoint", FALSE, FALSE, << >>, 2, "Api") >>) >>,
              << >>) >>)

\* the versions of the document a sync is run on
FieldDocs == {DocSync, DocSyncGrown}

\* the fields an earlier sync of a version has created, those of `had`
FieldsOfEarlierSync(earlier, stories, had) ==
    [name \in had |->
        RemoteField(1, name, FieldOptions(name, PhaseNames(earlier), stories))]

\* step 5 of sync_tasks_to_project begins; the project has some of the fields
\* from an earlier sync of some version of the document
InitF ==
    /\ doc \in FieldDocs
    /\ repo_issues = << >>
    /\ \E earlier \in FieldDocs, had \in SUBSET Range(FieldNames) :
         \E stories \in Orderings(UserStories(earlier)) :
            projects = << [items |-> << >>,
                           fields |-> FieldsOfEarlierSync(earlier, stories, had)] >>
    /\ project_id = 1
    /\ eng = "fields"
    /\ sub = 0
    /\ run = 1
    /\ hpc = "idle"
    /\ idx = 1
    /\ existing_issues_by_title = EmptyMap
    /\ project_issue_ids = {}
    /\ phase_issue = NoId
    /\ group_issue = NoId
    /\ phase_issues = EmptyMap
    /\ group_issues = EmptyMap
    /\ task_issues = EmptyMap
    /\ calls = << >>
    /\ results = << >>
    /\ faults = 0
    /\ outcomes = << >>
    /\ user_stories = << >>
    /\ existing_fields = EmptyMap
    /\ field_ids = EmptyMap
    /\ InitUnitIdle
    /\ labels = {}
    /\ links = {}
    /\ field_values = EmptyMap
    /\ disk = NoFile
    /\ config = [DefaultConfig EXCEPT !.project_id = 1]
    /\ kw = "none"

NextF ==
    \/ \E f \in 0..1 : E_GetExistingFields(f)
    \/ \E f \in 0..1 : E_SetupField(f)
    \/ E_StoreFieldIds

SpecF == InitF /\ [][NextF]_vars

\* ---- GraphQLClient.execute (graphql_client.py, lines 83-167) ----

\* the largest retry_count execute is called with (3 is its default)
MaxRetries == 3

\* lines 30-31: the thresholds of _check_rate_limit
MIN_REMAINING_BEFORE_DELAY == 500
CRITICAL_REMAINING == 100

\* X-RateLimit-Remaining values a response may carry
Remainings == {50, 300, 5000}

\* what a POST may come to: a response by its status or its body, or an
\* exception of httpx
Outcomes ==
    {"ok", "unauthorized", "forbidden", "server_error", "status_error", "graphql_errors",
     "rate_limit_errors", "timeout", "http_error"}

\* the outcomes with a response, whose headers _update_rate_limit reads
Responses == Outcomes \ {"timeout", "http_error"}

\* _check_rate_limit (lines 74-81): the seconds slept before the first attempt
CheckRateLimit(remaining) ==
    IF remaining < CRITICAL_REMAINING THEN 5
    ELSE IF remaining < MIN_REMAINING_BEFORE_DELAY THEN 1
    ELSE 0

\* the outcomes after which the loop goes on when attempts are left: a 5xx
\* status (line 127), httpx.TimeoutException (line 152) and httpx.HTTPError
\* (line 159), which is also what raise_for_status raises (line 135)
Retried == {"server_error", "timeout", "status_error", "http_error"}

\* the exception an outcome ends the call with when it is not retried
ExceptionOf(outcome) ==
    IF outcome \in {"forbidden", "rate_limit_errors"} THEN "RateLimitError"
    ELSE "GitHubGraphQLError"

\* RateLimitError is a subclass of GitHubGraphQLError (lines 14-21)
IsGitHubGraphQLError(e) == e \in {"GitHubGraphQLError", "RateLimitError"}

\* mutant: the wait does not grow
WaitTime_Constant(a) == 1

\* lines 130, 155 and 162: wait_time = 2 ** attempt
WaitTime(a) == 2 ^ a

\* lines 129, 154 and 161: `if attempt < retry_count - 1`
AttemptsLeft(a, n) == a < n - 1

ClientFrame ==
    UNCHANGED << repo_issues, projects, doc, project_id, eng, builder, calls, results, run,
                 faults, outcomes, sub, remote_rest, engine, dep_graph, added,
                 task_issue_map, created_links, skipped_links, upc, paging, parser,
                 lookups >>

\* execute is called: lines 104-110
X_Execute(n) ==
    /\ xpc \in {"idle", "returned", "raised"}
    /\ retry_count' = n
    /\ attempt' = 0
    /\ posts' = << >>
    /\ sleeps' = IF CheckRateLimit(rate_limit_remaining) > 0
                 THEN << [at |-> "check", seconds |-> CheckRateLimit(rate_limit_remaining)] >>
                 ELSE << >>
    /\ exc' = ""
    /\ xpc' = "loop"
    /\ UNCHANGED rate_limit_remaining
    /\ ClientFrame

\* one turn of the loop of lines 112-164: the POST, and what follows from
\* its outcome
X_Attempt(outcome, remaining) ==
    /\ xpc = "loop"
    /\ attempt < retry_count
    /\ posts' = Append(posts, outcome)
    /\ rate_limit_remaining' = IF outcome \in Responses THEN remaining ELSE rate_limit_remaining
    /\ IF outcome = "ok"
       THEN xpc' = "returned" /\ UNCHANGED << attempt, sleeps, exc >>
       ELSE IF outcome \in Retried /\ AttemptsLeft(attempt, retry_count)
       THEN /\ sleeps' = Append(sleeps, [at |-> "retry", seconds |-> WaitTime(attempt)])
            /\ attempt' = attempt + 1
            /\ UNCHANGED << xpc, exc >>
       ELSE /\ xpc' = "raised"
            /\ exc' = ExceptionOf(outcome)
            /\ UNCHANGED << attempt, sleeps >>
    /\ UNCHANGED retry_count
    /\ ClientFrame

\* line 167: the loop has ended without a return or an exception, which it
\* does when retry_count is not positive
X_LoopEnds ==
    /\ xpc = "loop"
    /\ attempt >= retry_count
    /\ xpc' = "raised"
    /\ exc' = "GitHubGraphQLError"
    /\ UNCHANGED << retry_count, attempt, posts, sleeps, rate_limit_remaining >>
    /\ ClientFrame

InitX ==
    /\ doc = NoDocument
    /\ repo_issues = << >>
    /\ projects = << >>
    /\ project_id = NoId
    /\ eng = "idle"
    /\ InitBuilderIdle
    /\ InitUnitIdle
    /\ labels = {}
    /\ links = {}
    /\ field_values = EmptyMap
    /\ disk = NoFile
    /\ config = DefaultConfig
    /\ kw = "none"

NextX ==
    \/ \E n \in 0..MaxRetries : X_Execute(n)
    \/ \E outcome \in Outcomes, remaining \in Remainings \cup {rate_limit_remaining} :
          X_Attempt(outcome, remaining)
    \/ X_LoopEnds

SpecX == InitX /\ [][NextX]_vars

(***************************************************************************)
(* parser/tasks_parser.py, parse_tasks_md (lines 80-219), called on its    *)
(* own.  A stripped line is [mark, num, text, us, par]: the literal it     *)
(* starts with, the characters of the number that follows ("## Phase " up  *)
(* to the colon, "T" up to the blank), the rest of the line, the user      *)
(* story tag and the [P] marker.  The characters of a number are given as  *)
(* a unit and the times it is repeated.                                    *)
(***************************************************************************)
\* lines of a text
MaxLines == 4

\* the digits int() converts at most (sys.get_int_max_str_digits(), the
\* default of the interpreter)
MaxStrDigits == 4300

Digits == {"0", "1", "2", "3", "4", "5", "6", "7", "8", "9"}

NoNum == [unit |-> << >>, times |-> 0]

Num(chars) == [unit |-> chars, times |-> 1]

NumLen(n) == Len(n.unit) * n.times

Line(mark, num, text, us, par) ==
    [mark |-> mark, num |-> num, text |-> text, us |-> us, par |-> par]

BlankLine == Line("", NoNum, "", "", FALSE)
TitleLine == Line("# Tasks: ", NoNum, "Parser Coverage", "", FALSE)
PhaseOneLine == Line("## Phase ", Num(<< "1" >>), "Setup", "", FALSE)
PhaseTwoLine == Line("## Phase ", Num(<< "2" >>), "Core", "", FALSE)
DecimalPhaseLine == Line("## Phase ", Num(<< "3", ".", "1" >>), "Foundation", "", FALSE)
LongPhaseLine == Line("## Phase ", [unit |-> << "1" >>, times |-> MaxStrDigits + 1], "Big", "", FALSE)
FormatPhaseLine == Line("## Phase ", Num(<< "4" >>), "Format: Layout", "", FALSE)
GroupLine == Line("### ", NoNum, "Task Group: API", "", FALSE)
StoryGroupLine == Line("### ", NoNum, "Stories", "US1", FALSE)
TaskLine == Line("- [ ] ", Num(<< "0", "0", "1" >>), "Define baseline requirements", "", FALSE)
DoneTaskLine == Line("- [x] ", Num(<< "0", "0", "2" >>), "Build endpoint in src/api.py", "US1", TRUE)
ShortIdLine == Line("- [ ] ", Num(<< "0", "1" >>), "Short id", "", FALSE)
PurposeLine == Line("**Purpose**: ", NoNum, "Prepare", "", FALSE)
GoalLine == Line("**Goal**: ", NoNum, "Ship", "", FALSE)
CheckpointLine == Line("**Checkpoint**: ", NoNum, "Review", "", FALSE)
IndependentTestLine == Line("**Independent Test**: ", NoNum, "Run", "", FALSE)
NoteLine == Line("", NoNum, "Some notes", "", FALSE)

TextLines ==
    {BlankLine, TitleLine, PhaseOneLine, PhaseTwoLine, DecimalPhaseLine, LongPhaseLine,
     FormatPhaseLine, GroupLine, StoryGroupLine, TaskLine, DoneTaskLine, ShortIdLine,
     PurposeLine, NoteLine}

\* \d+ on the characters of a number
DigitsOnly(n) == NumLen(n) >= 1 /\ \A i \in DOMAIN n.unit : n.unit[i] \in Digits

\* line 104: an empty line, or a line that starts with ## and holds "Format:"
IsSkipped(line) ==
    \/ line.mark = "" /\ line.text = ""
    \/ line.mark \in {"## Phase ", "### ", "#### "} /\ line.text = "Format: Layout"

\* TITLE_PATTERN (line 11)
TitleMatch(line) == line.mark = "# Tasks: " /\ line.text # ""

\* PHASE_PATTERN (line 14): ## Phase, digits, a colon, a blank and a heading
PhaseMatch(line) == line.mark = "## Phase " /\ DigitsOnly(line.num) /\ line.text # ""

\* line 146 and GROUP_PATTERN (line 15)
GroupMatch(line) == line.mark = "### " /\ line.text # ""

\* PURPOSE_PATTERN (line 19)
PurposeMatch(line) == line.mark = "**Purpose**: " /\ line.text # ""

\* GOAL_PATTERN, CHECKPOINT_PATTERN and INDEPENDENT_TEST_PATTERN (lines 20-22)
GoalMatch(line) == line.mark = "**Goal**: " /\ line.text # ""

CheckpointMatch(line) == line.mark = "**Checkpoint**: " /\ line.text # ""

IndependentTestMatch(line) == line.mark = "**Independent Test**: " /\ line.text # ""

\* a line that one of the four metadata patterns matches
MetadataMatch(line) ==
    PurposeMatch(line) \/ GoalMatch(line) \/ CheckpointMatch(line) \/ IndependentTestMatch(line)

\* mutant: metadata is taken while a group is open
MetadataOpen_InGroups(st) == st.current_phase # << >>

\* line 159: `if current_phase and not current_group`
MetadataOpen(st) == st.current_phase # << >> /\ st.current_group = << >>

\* TASK_PATTERN (lines 16-18): the checkbox, T and three or four digits
TaskMatch(line) ==
    /\ line.mark \in {"- [ ] ", "- [x] ", "- [X] "}
    /\ DigitsOnly(line.num)
    /\ NumLen(line.num) \in 3..4
    /\ line.text # ""

DigitValue(c) ==
    CASE c = "0" -> 0 [] c = "1" -> 1 [] c = "2" -> 2 [] c = "3" -> 3 [] c = "4" -> 4
      [] c = "5" -> 5 [] c = "6" -> 6 [] c = "7" -> 7 [] c = "8" -> 8 [] OTHER -> 9

RECURSIVE IntOfChars(_)
IntOfChars(chars) ==
    IF chars = << >> THEN 0
    ELSE 10 * IntOfChars(SubSeq(chars, 1, Len(chars) - 1)) + DigitValue(chars[Len(chars)])

\* int(match.group(1)), line 130: ValueError beyond the limit of digits
IntRaises(n) == NumLen(n) > MaxStrDigits

IntOf(n) == IntOfChars(n.unit)

RECURSIVE JoinChars(_)
JoinChars(chars) == IF chars = << >> THEN "" ELSE Head(chars) \o JoinChars(Tail(chars))

\* parse_phase_heading (lines 40-77) on the headings of the texts: the title
ParsePhaseHeading(heading) ==
    CASE heading = "Login (Priority: P1)" -> "Login ("
      [] OTHER -> heading

\* extract_file_paths (lines 35-37) on the descriptions of the texts
ExtractFilePaths(description) ==
    CASE description = "Build endpoint in src/api.py" -> << "src/api.py" >>
      [] OTHER -> << >>

\* the locals of parse_tasks_md and what has become of the call
ParserState(d, phase, group, number, raised) ==
    [doc |-> d, current_phase |-> phase, current_group |-> group, phase_number |-> number,
     raised |-> raised]

\* mutant: the open group is dropped
FlushGroup_Drops(phase, group) == phase

\* lines 124-125, 149-150 and 214-215: the open group joins the open phase
FlushGroup(phase, group) ==
    IF group # << >> /\ phase # << >>
    THEN << [phase[1] EXCEPT !.groups = Append(@, group[1])] >>
    ELSE phase

\* lines 127-128 and 216-217: the open phase joins the document
FlushPhase(d, phase) ==
    IF phase # << >> THEN [d EXCEPT !.phases = Append(@, phase[1])] ELSE d

\* lines 178-206: the task of a task line
TaskOf(line, number, group) ==
    [Task("T" \o JoinChars(line.num.unit), line.text, line.mark # "- [ ] ", line.par,
          ExtractFilePaths(line.text), number,
          IF group # << >> THEN group[1].title ELSE "")
     EXCEPT !.user_story = line.us]

\* mutant: a task of a group is a direct task of the phase as well
AttachTask_AlsoDirect(st, task) ==
    IF st.current_group # << >>
    THEN [st EXCEPT !.current_group[1].tasks = Append(@, task),
                    !.current_phase[1].direct_tasks = Append(@, task)]
    ELSE [st EXCEPT !.current_phase[1].direct_tasks = Append(@, task)]

\* lines 208-211
AttachTask(st, task) ==
    IF st.current_group # << >>
    THEN [st EXCEPT !.current_group[1].tasks = Append(@, task)]
    ELSE [st EXCEPT !.current_phase[1].direct_tasks = Append(@, task)]

\* lines 100-211: one turn of the loop
ParseLine(st, line) ==
    IF IsSkipped(line) THEN st
    ELSE IF TitleMatch(line) THEN [st EXCEPT !.doc.title = line.text]
    ELSE IF PhaseMatch(line)
    THEN LET flushed == FlushPhase(st.doc, FlushGroup(st.current_phase, st.current_group))
         IN  IF IntRaises(line.num)
             THEN [st EXCEPT !.doc = flushed, !.raised = TRUE]
             ELSE ParserState(flushed,
                              << Phase(IntOf(line.num), ParsePhaseHeading(line.text), "",
                                       << >>, << >>) >>,
                              << >>, IntOf(line.num), FALSE)
    ELSE IF line.mark = "### " /\ st.current_phase # << >>
    THEN IF GroupMatch(line)
         THEN [st EXCEPT !.current_phase =
                              IF st.current_group # << >>
                              THEN FlushGroup(st.current_phase, st.current_group)
                              ELSE st.current_phase,
                         !.current_group = << StoryGroup(line.text, line.us, << >>) >>]
         ELSE st
    ELSE IF MetadataOpen(st) /\ MetadataMatch(line)
    THEN IF PurposeMatch(line) THEN [st EXCEPT !.current_phase[1].purpose = line.text]
         ELSE IF GoalMatch(line) THEN [st EXCEPT !.current_phase[1].goal = line.text]
         ELSE IF CheckpointMatch(line)
         THEN [st EXCEPT !.current_phase[1].checkpoint = line.text]
         ELSE [st EXCEPT !.current_phase[1].independent_test = line.text]
    ELSE IF TaskMatch(line)
    THEN IF st.current_phase = << >> THEN st
         ELSE AttachTask(st, TaskOf(line, st.phase_number, st.current_group))
    ELSE st

\* lines 213-219: what is open joins the document, which is returned
Finish(st) ==
    [st EXCEPT !.doc = FlushPhase(st.doc, FlushGroup(st.current_phase, st.current_group))]

\* the next line of the text is `line`
T_Line(line) ==
    /\ upc = "parsing"
    /\ Len(lines) < MaxLines
    /\ LET st == ParseLine(ParserState(doc, current_phase, current_group, phase_number, FALSE),
                           line)
       IN  /\ doc' = st.doc
           /\ current_phase' = st.current_phase
           /\ current_group' = st.current_group
           /\ phase_number' = st.phase_number
           /\ upc' = IF st.raised THEN "raised" ELSE "parsing"
    /\ lines' = Append(lines, line)
    /\ line_no' = line_no + 1
    /\ UNCHANGED << repo_issues, projects, project_id, eng, builder, results, run, calls,
                    faults, outcomes, sub, remote_rest, engine, dep_graph, added,
                    task_issue_map, created_links, skipped_links, paging, lookup, client >>

\* the text has no further line
T_Return ==
    /\ upc = "parsing"
    /\ lines # << >>
    /\ doc' = Finish(ParserState(doc, current_phase, current_group, phase_number, FALSE)).doc
    /\ upc' = "returned"
    /\ UNCHANGED << repo_issues, projects, project_id, eng, builder, results, run, calls,
                    faults, outcomes, sub, remote_rest, engine, dep_graph, added,
                    task_issue_map, created_links, skipped_links, paging, lookup, client,
                    lines, line_no,
                    current_phase, current_group, phase_number >>

\* lines 90-98: the document and the locals before the first line
InitT ==
    /\ doc = TasksDocument("Untitled", << >>)
    /\ lines = << >>
    /\ line_no = 0
    /\ current_phase = << >>
    /\ current_group = << >>
    /\ phase_number = 0
    /\ upc = "parsing"
    /\ repo_issues = << >>
    /\ projects = << >>
    /\ project_id = NoId
    /\ eng = "idle"
    /\ InitBuilderIdle
    /\ labels = {}
    /\ links = {}
    /\ field_values = EmptyMap
    /\ disk = NoFile
    /\ config = DefaultConfig
    /\ kw = "none"
    /\ dep_graph = << >>
    /\ added = << >>
    /\ task_issue_map = EmptyMap
    /\ created_links = 0
    /\ skipped_links = 0
    /\ InitPagingIdle

NextT ==
    \/ \E line \in TextLines : T_Line(line)
    \/ T_Return

SpecT == InitT /\ [][NextT]_vars

\* ---- parse_tasks_md on texts of headings and metadata lines ----

MetadataLines == {PurposeLine, GoalLine, CheckpointLine, IndependentTestLine}

HeadingAndMetadataLines ==
    {PhaseOneLine, PhaseTwoLine, GroupLine, StoryGroupLine, TaskLine} \cup MetadataLines

NextM ==
    \/ \E line \in HeadingAndMetadataLines : T_Line(line)
    \/ T_Return

SpecM == InitT /\ [][NextM]_vars



(***************************************************************************)
(* Claims about the hierarchy builder (checked under SpecH).               *)
(***************************************************************************)
NoDuplicates(s) == \A i, j \in DOMAIN s : s[i] = s[j] => i = j

Created(r) == CallsOf(r.calls, "createIssue")

Attached(r) == CallsOf(r.calls, "addProjectV2ItemById")

\* the repository held no issue when the first call started: the first call
\* created issue 1
RepoWasEmpty == Len(results) >= 1 /\ \E i \in DOMAIN results[1].calls :
                    results[1].calls[i].op = "createIssue" /\ results[1].calls[i].id = 1

\* C1: a second create_hierarchy on the same document, starting from the
\* remote state the first one left, issues no createIssue mutation and returns
\* the same issue id for every phase, group and task key.
C1_SecondRunReusesEveryIssue ==
    Len(results) >= 2 =>
        /\ Created(results[2]) = << >>
        /\ results[2].phase_issues = results[1].phase_issues
        /\ results[2].group_issues = results[1].group_issues
        /\ results[2].task_issues = results[1].task_issues

\* both calls have returned for the two-phase document, the first one having
\* created its seven issues
C1_Witness ==
    /\ doc = DocEndToEnd
    /\ Len(results) = 2
    /\ Len(Created(results[1])) = 7
    /\ DOMAIN results[2].task_issues = {"T001", "T002", "T003"}

\* C2: addProjectV2ItemById is never issued for an issue that is a content id
\* of the project already, or that this call created or attached before; no
\* issue gets a second item in the project, and a call that follows a complete
\* call issues no addProjectV2ItemById at all.
C2_NoSecondProjectItem ==
    /\ \A p \in DOMAIN projects :
          \A i, j \in DOMAIN projects[p].items :
              (projects[p].items[i] = projects[p].items[j] /\ projects[p].items[i] # NoId)
                  => i = j
    /\ \A i, j \in DOMAIN calls :
          (i < j /\ calls[j].op = "addProjectV2ItemById"
                 /\ calls[i].op \in {"addProjectV2ItemById", "createIssue"})
              => calls[i].id # calls[j].id
    /\ Len(results) >= 2 => Attached(results[2]) = << >>

\* a first call attached an issue that was in the repository but not in the
\* project, and the second call has returned
C2_Witness ==
    /\ Len(results) = 2
    /\ Attached(results[1]) # << >>
    /\ Created(results[1]) # << >>

ParentOf(id) == repo_issues[id].parent

\* C3: in the maps create_hierarchy returns, a phase issue has no parent, a
\* group issue has the issue of its phase as parent, a grouped task issue the
\* issue of its group, a direct task issue the issue of its phase.
C3_ParentLinkage ==
    \A k \in DOMAIN results :
        LET r == results[k] IN
        \A pi \in DOMAIN doc.phases :
            LET p == doc.phases[pi] IN
            /\ ParentOf(r.phase_issues[p.number]) = NoId
            /\ \A gi \in DOMAIN p.groups :
                  LET g == p.groups[gi] IN
                  /\ ParentOf(r.group_issues[GroupKey(p, g)]) = r.phase_issues[p.number]
                  /\ \A ti \in DOMAIN g.tasks :
                        ParentOf(r.task_issues[g.tasks[ti].id]) = r.group_issues[GroupKey(p, g)]
            /\ \A ti \in DOMAIN p.direct_tasks :
                  ParentOf(r.task_issues[p.direct_tasks[ti].id]) = r.phase_issues[p.number]

\* a call has returned for the document whose direct task follows a group
C3_Witness ==
    /\ doc = DocCoverage
    /\ Len(results) >= 1
    /\ results[1].task_issues["T001"] # results[1].task_issues["T002"]
    /\ ParentOf(results[1].task_issues["T002"]) # NoId

\* the uniqueness the document model asks for: phase numbers and task ids
PhaseNumbersUnique(d) == NoDuplicates([i \in DOMAIN d.phases |-> d.phases[i].number])

TaskIdsUnique(d) == NoDuplicates([i \in DOMAIN DocAllTasks(d) |-> DocAllTasks(d)[i].id])

\* issue titles are unique under every parent: the phases; in a phase its
\* groups and direct tasks; in a group its tasks
TitlesUniquePerParent(d) ==
    /\ NoDuplicates([i \in DOMAIN d.phases |-> PhaseTitle(d.phases[i])])
    /\ \A pi \in DOMAIN d.phases :
          LET p == d.phases[pi] IN
          /\ NoDuplicates([i \in DOMAIN p.groups |-> p.groups[i].title]
                          \o [i \in DOMAIN p.direct_tasks |-> TaskTitle(p.direct_tasks[i])])
          /\ \A gi \in DOMAIN p.groups :
                NoDuplicates([i \in DOMAIN p.groups[gi].tasks |-> TaskTitle(p.groups[gi].tasks[i])])

NumGroups(d) == Len(Concat([i \in DOMAIN d.phases |-> d.phases[i].groups]))

Running ==
    eng \in {"resolve", "project", "fields", "labels", "hierarchy", "values",
             "group_values", "completion", "deps", "persist"}

IssuedMutations(log) == SelectSeq(log, LAMBDA c : c.op \in Mutations)

\* the logs of the invocations so far, the one at hand last
RunLogs == [k \in DOMAIN outcomes |-> outcomes[k].calls] \o << calls >>

\* C5: a sync invoked with dry_run=True on a valid document runs to its end
\* and issues no mutation to the remote service at any point.
C5_DryRunIssuesNoMutation ==
    (kw = "dry_run=True" /\ ~Running)
        => (eng = "done" /\ IssuedMutations(calls) = << >>)

\* C6: a sync invoked with dry_run=True never writes the configuration file
\* and returns the configuration as it was handed in: project_id and
\* last_synced_at keep their values.
C6_DryRunReturnsConfigUnchanged ==
    (kw = "dry_run=True" /\ ~Running)
        => /\ eng = "done"
           /\ CallsOf(calls, "save_config") = << >>
           /\ config.project_id = LoadConfig(disk).project_id
           /\ config.last_synced_at = LoadConfig(disk).last_synced_at

\* the project existed when the run of the log failed: the run created it, or
\* issued a call of a step that follows the project step
AfterProject(log) ==
    \E i \in DOMAIN log :
        \/ log[i].op = "createProjectV2" /\ log[i].ok
        \/ log[i].step \notin {"resolve", "project"}

CreatedIssues(log) == SelectSeq(log, LAMBDA c : c.op = "createIssue" /\ c.ok)

\* C7: after a sync that failed at a step after the project was created, a
\* later sync, started from the remote state and the configuration file the
\* failed one left, issues no createProjectV2 and creates no issue with the
\* title and parent of an issue the failed sync created.
C7_RerunCreatesNoDuplicate ==
    \A k \in DOMAIN outcomes :
        (outcomes[k].eng = "failed" /\ AfterProject(outcomes[k].calls)) =>
            \A m \in (k + 1)..Len(RunLogs) :
                /\ CallsOf(RunLogs[m], "createProjectV2") = << >>
                /\ \A i \in DOMAIN CreatedIssues(RunLogs[k]) :
                   \A j \in DOMAIN CreatedIssues(RunLogs[m]) :
                       ~(/\ CreatedIssues(RunLogs[k])[i].title = CreatedIssues(RunLogs[m])[j].title
                         /\ CreatedIssues(RunLogs[k])[i].parent = CreatedIssues(RunLogs[m])[j].parent)

\* the first sync created the project and an issue and then failed; the second
\* one has completed, having created the issues that were missing
C7_Witness ==
    /\ Len(outcomes) = 1
    /\ outcomes[1].eng = "failed"
    /\ CallsOf(outcomes[1].calls, "createProjectV2") # << >>
    /\ CreatedIssues(outcomes[1].calls) # << >>
    /\ eng = "done"
    /\ CreatedIssues(calls) # << >>
    /\ Len(projects) = 1

LaterSteps == {"fields", "labels", "hierarchy", "values", "completion", "deps", "persist"}

AfterFields == LaterSteps \ {"fields"}

\* C8: in a sync that creates the project, save_config follows the
\* createProjectV2 call at once and before any call of a later step, so the
\* configuration file holds the project id in every later state of the run,
\* a failure included; the field ids are saved after the last field call and
\* before any call of the steps that follow.
C8_ProjectIdPersistedAtOnce ==
    \A i \in DOMAIN calls :
        (calls[i].op = "createProjectV2" /\ calls[i].ok) =>
            /\ i < Len(calls)
            /\ calls[i + 1].op = "save_config"
            /\ \A j \in DOMAIN calls : calls[j].step \in LaterSteps => j > i + 1
            /\ disk.exists
            /\ disk.data.project_id = calls[i].id
            /\ \A j \in DOMAIN calls :
                  calls[j].step \in AfterFields =>
                      /\ disk.data.field_ids = field_ids
                      /\ "Task ID" \in DOMAIN disk.data.field_ids
                      /\ \E s \in 1..(j - 1) :
                            /\ calls[s].op = "save_config" /\ calls[s].step = "fields"
                            /\ \A r \in DOMAIN calls :
                                  (calls[r].step = "fields" /\ r # s) => r < s

\* a sync created the project and failed while it built the hierarchy: the
\* file holds the project id and the field ids, and no hash yet
C8_Witness ==
    /\ eng = "failed"
    /\ CallsOf(calls, "createProjectV2") # << >>
    /\ calls[Len(calls)].step = "hierarchy"
    /\ disk.exists
    /\ disk.data.project_id = 1
    /\ disk.data.last_synced_tasks_md_hash = ""

\* an error the code treats as an idempotent no-op: whatever a createLabel
\* raises, and the link-exists error of addBlockedBy
SwallowedError(c) ==
    \/ c.op = "createLabel"
    \/ c.op = "addBlockedBy" /\ c.title \in SwallowedMessages

remote == << repo_issues, projects, labels, links, field_values >>

\* C9: a remote call that fails with an error that is not swallowed as an
\* idempotent no-op ends the sync at once: it is the last call of the run, and
\* from then on the remote state stays as it is (nothing is deleted, closed or
\* detached) until the sync is invoked again.
C9_FailureEndsTheRun ==
    /\ [](\A i \in DOMAIN calls :
            (~calls[i].ok /\ ~SwallowedError(calls[i]))
                => (i = Len(calls) /\ eng = "failed"))
    /\ [][eng = "failed" => UNCHANGED remote]_vars

\* a createIssue failed after the project and an issue had been created: both
\* are still there
C9_Witness ==
    /\ eng = "failed"
    /\ calls # << >>
    /\ calls[Len(calls)].op = "createIssue"
    /\ ~calls[Len(calls)].ok
    /\ CreatedIssues(calls) # << >>
    /\ Len(projects) = 1
    /\ \A i \in DOMAIN CreatedIssues(calls) :
          repo_issues[CreatedIssues(calls)[i].id].title = CreatedIssues(calls)[i].title

\* the place of a step in the pipeline
StepOrder(step) ==
    CASE step = "resolve" -> 1
      [] step = "project" -> 2
      [] step = "fields" -> 3
      [] step = "labels" -> 4
      [] step = "hierarchy" -> 5
      [] step = "values" -> 6
      [] step = "completion" -> 7
      [] step = "deps" -> 8
      [] OTHER -> 9

\* C10: the calls of a sync are issued in the order of the pipeline: resolve
\* repository, project, fields, labels, hierarchy, field values, completion
\* states, dependencies, persist; a call of an earlier step never follows a
\* call of a later one, and the completion states are synced for the tasks of
\* the parsed document, on the issues of the task-issue map.
C10_PipelineOrder ==
    /\ \A i, j \in DOMAIN calls :
          i < j => StepOrder(calls[i].step) <= StepOrder(calls[j].step)
    /\ \A i \in DOMAIN calls :
          calls[i].step = "completion" =>
              \E t \in DOMAIN AllTasksOf[doc] :
                  /\ AllTasksOf[doc][t].id \in DOMAIN task_issues
                  /\ task_issues[AllTasksOf[doc][t].id] = calls[i].id
                  /\ calls[i].title = WantedState(AllTasksOf[doc][t])
    /\ eng = "done" => calls[Len(calls)].step = "persist"

\* a sync has completed and its log holds a call of each of the nine steps
C10_Witness ==
    /\ eng = "done"
    /\ {calls[i].step : i \in DOMAIN calls}
          = {"resolve", "project", "fields", "labels", "hierarchy", "values",
             "completion", "deps", "persist"}
    /\ CallsOf(calls, "addBlockedBy") # << >>

\* a sync that ran to its end, now or in an earlier invocation
SyncCompleted == eng = "done" \/ \E k \in DOMAIN outcomes : outcomes[k].eng = "done"

\* C11: once a normal run has succeeded in every step, the configuration on
\* disk holds the hash of the tasks file and a time of completion, and
\* needs_sync is false for the unchanged file from then on, whatever later
\* invocations do
C11_SyncStatePersisted ==
    SyncCompleted =>
        /\ disk.exists
        /\ disk.data.last_synced_tasks_md_hash = CalculateHash(doc)
        /\ disk.data.last_synced_at # ""
        /\ ~NeedsSync(doc, LoadConfig(disk))
        /\ eng = "done" => ~NeedsSync(doc, config)

\* a second invocation failed after a first one had run to its end
C11_Witness ==
    /\ eng = "failed"
    /\ \E k \in DOMAIN outcomes : outcomes[k].eng = "done"
    /\ ~NeedsSync(doc, LoadConfig(disk))

(***************************************************************************)
(* Claims about the dependency graph (checked under SpecG).                *)
(***************************************************************************)
\* DependencyGraph.get_blockers: the blockers of a task, in order
Blockers(task_id) ==
    LET hits == SelectSeq(dep_graph, LAMBDA e : e.task_id = task_id)
    IN  IF hits = << >> THEN << >> ELSE hits[1].blockers

\* build_dependency_graph has returned the graph of the document
Built == doc # NoDocument /\ upc # "document"

\* the flattened tasks of phase pi
TasksOf(pi) == PhaseAllTasks(doc.phases[pi])

IdsOf(pi) == {TasksOf(pi)[i].id : i \in DOMAIN TasksOf(pi)}

\* the position of the nearest non-parallel task before position i of phase
\* pi, 0 if there is none
NearestSequential(pi, i) ==
    LET before == {j \in 1..(i - 1) : ~TasksOf(pi)[j].is_parallel}
    IN  IF before = {} THEN 0 ELSE CHOOSE j \in before : \A k \in before : k <= j

\* the nearest phase before pi that has tasks, 0 if there is none
PreviousPhase(pi) ==
    LET before == {q \in 1..(pi - 1) : TasksOf(q) # << >>}
    IN  IF before = {} THEN 0 ELSE CHOOSE q \in before : \A k \in before : k <= q

\* C12: within a phase, a non-parallel task that has a non-parallel task
\* before it depends on the nearest of them, however many parallel tasks lie
\* between, and on no other task of the phase
C12_SequentialDependsOnNearestSequential ==
    Built =>
        \A pi \in DOMAIN doc.phases : \A i \in DOMAIN TasksOf(pi) :
            (~TasksOf(pi)[i].is_parallel /\ NearestSequential(pi, i) # 0) =>
                Range(Blockers(TasksOf(pi)[i].id)) \cap IdsOf(pi)
                    = {TasksOf(pi)[NearestSequential(pi, i)].id}

\* a phase of a sequential task, a parallel task and a sequential task, whose
\* third task waits for the first
C12_Witness ==
    /\ Built
    /\ \E pi \in DOMAIN doc.phases :
          /\ Len(TasksOf(pi)) = 3
          /\ ~TasksOf(pi)[1].is_parallel
          /\ TasksOf(pi)[2].is_parallel
          /\ ~TasksOf(pi)[3].is_parallel
          /\ TasksOf(pi)[1].id \in Range(Blockers(TasksOf(pi)[3].id))

\* C13: within a phase, a parallel task that has a non-parallel task before
\* it depends on the nearest of them, and no task depends on a parallel task
\* of its own phase
C13_ParallelDependsOnAnchorOnly ==
    Built =>
        \A pi \in DOMAIN doc.phases : \A i \in DOMAIN TasksOf(pi) :
            /\ (TasksOf(pi)[i].is_parallel /\ NearestSequential(pi, i) # 0) =>
                  TasksOf(pi)[NearestSequential(pi, i)].id
                      \in Range(Blockers(TasksOf(pi)[i].id))
            /\ \A j \in DOMAIN TasksOf(pi) :
                  TasksOf(pi)[j].is_parallel =>
                      TasksOf(pi)[j].id \notin Range(Blockers(TasksOf(pi)[i].id))

\* a phase of a sequential task and two parallel tasks: both wait for the
\* first task, the third does not wait for the second
C13_Witness ==
    /\ Built
    /\ \E pi \in DOMAIN doc.phases :
          /\ Len(TasksOf(pi)) = 3
          /\ ~TasksOf(pi)[1].is_parallel
          /\ TasksOf(pi)[2].is_parallel
          /\ TasksOf(pi)[3].is_parallel
          /\ Blockers(TasksOf(pi)[2].id) = << TasksOf(pi)[1].id >>
          /\ Blockers(TasksOf(pi)[3].id) = << TasksOf(pi)[1].id >>

\* the task of phase q the first task of the next phase is to wait for: the
\* last non-parallel task, or the final task if every task is parallel
PhaseExit(q) ==
    LET n == Len(TasksOf(q))
        last == NearestSequential(q, n + 1)
    IN  IF last # 0 THEN TasksOf(q)[last].id ELSE TasksOf(q)[n].id

C14_SkipsEmptyPhase ==
    /\ Built
    /\ Len(doc.phases) = 3
    /\ Len(TasksOf(1)) = 2
    /\ ~TasksOf(1)[2].is_parallel
    /\ TasksOf(3) # << >>
    /\ TasksOf(1)[2].id \in Range(Blockers(TasksOf(3)[1].id))

\* the phase ends with a parallel task
EndsParallel(q) == TasksOf(q) # << >> /\ TasksOf(q)[Len(TasksOf(q))].is_parallel

Handed(task_id) ==
    LET mine == SelectSeq(added, LAMBDA a : a[1] = task_id)
    IN  [i \in DOMAIN mine |-> mine[i][2]]

\* C16: after any sequence of add_dependency calls no blocker list holds a
\* blocker twice, and the blockers of a task are in the order of their first
\* insertion
C16_BlockersOrderedUnique ==
    /\ \A i \in DOMAIN dep_graph : NoDuplicates(dep_graph[i].blockers)
    /\ doc = NoDocument =>
          \A t \in HandTasks : Blockers(t) = FirstOccurrences(Handed(t))

\* a blocker was added a second time after another blocker of the same task
C16_Witness ==
    /\ doc = NoDocument
    /\ \E t \in HandTasks, a, b \in HandTasks :
          /\ a # b
          /\ added = << << t, a >>, << t, b >>, << t, a >> >>
          /\ Blockers(t) = << a, b >>

\* the edges of the graph in the order create_dependencies walks them, and
\* those whose two tasks have an issue in the map of the caller
Edges == DependencyEdges(dep_graph)

HasIssues(e) == e.task_id \in DOMAIN task_issue_map /\ e.blocker \in DOMAIN task_issue_map

WithIssues == SelectSeq(Edges, HasIssues)

\* C19: a create_dependencies call that returns has issued one add-blocked-by
\* request for each edge whose two tasks have issues, with the issue of the
\* dependent task as issueId and the issue of the blocker as blockingIssueId,
\* and no other request
C19_OneRequestPerLinkableEdge ==
    upc = "linked" =>
        /\ Len(calls) = Len(WithIssues)
        /\ \A i \in DOMAIN calls :
              /\ calls[i].op = "addBlockedBy"
              /\ calls[i].id = task_issue_map[WithIssues[i].task_id].id
              /\ calls[i].parent = task_issue_map[WithIssues[i].blocker].id

\* two requests were issued for a graph of three edges, one of which has a
\* task without issue
C19_Witness ==
    /\ upc = "linked"
    /\ Len(Edges) = 3
    /\ Len(WithIssues) = 2
    /\ Len(calls) = 2
    /\ calls[1].id # calls[1].parent

\* the requests the service refused
Refused == SelectSeq(calls, LAMBDA c : c.title # "")

\* C20: an edge one of whose tasks has no issue leads to no request and to no
\* error; it is counted as skipped and the edges after it are processed
C20_MissingIssueIsSkipped ==
    upc \in {"linked", "raised"} =>
        /\ faults = 0 => upc = "linked"
        /\ \A i \in DOMAIN calls : calls[i].id # NoId /\ calls[i].parent # NoId
        /\ Len(calls) <= Len(WithIssues)
        /\ upc = "linked" =>
              /\ skipped_links = (Len(Edges) - Len(WithIssues)) + Len(Refused)
              /\ created_links + skipped_links = Len(Edges)
              /\ Len(calls) = Len(WithIssues)

\* the first edge lacks the issue of its blocker, the second edge was linked
C20_Witness ==
    /\ upc = "linked"
    /\ Len(Edges) = 2
    /\ Edges[1].task_id \in DOMAIN task_issue_map
    /\ Edges[1].blocker \notin DOMAIN task_issue_map
    /\ HasIssues(Edges[2])
    /\ skipped_links = 1
    /\ created_links = 1
    /\ Len(calls) = 1

(***************************************************************************)
(* Claims about sync_completion_states (checked under SpecS).              *)
(***************************************************************************)
\* the state an issue is to have for a task, and whether a cached record of
\* the task has it
FlagState(task) == IF task.is_completed THEN "CLOSED" ELSE "OPEN"

StateMatches(task, record) ==
    IF task.is_completed THEN record.state \in {"CLOSED", "closed"}
    ELSE record.state \in {"OPEN", "open"}

\* the tasks of call k that have a record whose state differs from the flag
Differing(k) ==
    SelectSeq(DocAllTasks(results[k].doc),
              LAMBDA t : /\ t.id \in DOMAIN results[k].task_issue_map
                         /\ ~StateMatches(t, results[k].task_issue_map[t.id]))

\* the map a call left: the map of the next call, or the map at hand
MapAfter(k) == IF k < Len(results) THEN results[k + 1].task_issue_map ELSE task_issue_map

\* C17: a sync_completion_states call issues one update-issue mutation for
\* each task that has an issue whose state differs from the completion flag,
\* CLOSED for a completed task and OPEN otherwise, and none else; the cached
\* record of such a task has the new state afterwards
C17_UpdatesDifferingIssues ==
    upc = "states" =>
        \A k \in DOMAIN results :
            /\ Len(results[k].calls) = Len(Differing(k))
            /\ \A i \in DOMAIN results[k].calls :
                  /\ results[k].calls[i].op = "updateIssue"
                  /\ results[k].calls[i].id = results[k].task_issue_map[Differing(k)[i].id].id
                  /\ results[k].calls[i].title = FlagState(Differing(k)[i])
                  /\ MapAfter(k)[Differing(k)[i].id].state = FlagState(Differing(k)[i])

\* the test of lines 446-471: a completed task with an open issue and a
\* pending task with a closed issue; the first call closed one and opened
\* the other
C17_Witness ==
    /\ upc = "states"
    /\ Len(results) = 1
    /\ Len(DocAllTasks(doc)) = 2
    /\ DocAllTasks(doc)[1].is_completed
    /\ ~DocAllTasks(doc)[2].is_completed
    /\ DOMAIN results[1].task_issue_map = {TaskId(1), TaskId(2)}
    /\ results[1].task_issue_map[TaskId(1)].state = "OPEN"
    /\ results[1].task_issue_map[TaskId(2)].state = "CLOSED"
    /\ Len(calls) = 2
    /\ calls[1].title = "CLOSED"
    /\ calls[2].title = "OPEN"
    /\ task_issue_map[TaskId(1)].state = "CLOSED"
    /\ task_issue_map[TaskId(2)].state = "OPEN"
    /\ repo_issues[1].state = "CLOSED"

\* C18: a call that finds every issue in the state of its task issues no
\* update; a second call right after a first one, on the same document,
\* issues none
C18_SecondCallIssuesNoUpdate ==
    upc = "states" =>
        \A k \in DOMAIN results :
            /\ Differing(k) = << >> => results[k].calls = << >>
            /\ (k > 1 /\ results[k].doc = results[k - 1].doc) => results[k].calls = << >>

\* the first call updated an issue, the second call on the same document
\* updated none
C18_Witness ==
    /\ upc = "states"
    /\ Len(results) = 2
    /\ results[2].doc = results[1].doc
    /\ results[1].calls # << >>
    /\ results[2].calls = << >>

\* an edit of the document between the calls makes the second call update
C18_EditedDocumentIsSynced ==
    /\ upc = "states"
    /\ Len(results) = 2
    /\ results[2].doc # results[1].doc
    /\ results[2].calls # << >>

\* the messages that hold both "already" and "block", in any case and order
SaysAlreadyBlocked == {LinkExistsMessage, CapitalsMessage, ReversedMessage}

\* C21: a request refused with a message that holds "already" and "block"
\* (whatever the case) does not end create_dependencies, which goes on with
\* the next edge; a request refused with any other message ends it with the
\* error, and no edge is requested after it
C21_OnlyAlreadyBlockedIsSwallowed ==
    upc \in {"linked", "raised"} =>
        /\ \A i \in DOMAIN calls :
              calls[i].title \notin ({""} \cup SaysAlreadyBlocked) =>
                  upc = "raised" /\ i = Len(calls)
        /\ (\A i \in DOMAIN calls : calls[i].title \in ({""} \cup SaysAlreadyBlocked)) =>
              upc = "linked" /\ Len(calls) = Len(WithIssues)

\* a request was refused with "Already Blocked" in capitals and the request
\* of the next edge was issued and succeeded
C21_Witness ==
    /\ upc = "linked"
    /\ Len(calls) >= 2
    /\ calls[1].title = CapitalsMessage
    /\ calls[2].title = ""
    /\ created_links = 1
    /\ skipped_links = 1

\* a request was refused with a message that holds "already" alone: the call
\* ended with edges left
C21_OtherErrorRaises ==
    /\ upc = "raised"
    /\ calls[Len(calls)].title = AlreadyOnlyMessage
    /\ Len(calls) < Len(WithIssues)

(***************************************************************************)
(* Claims about build_project_item_map (checked under SpecP).              *)
(***************************************************************************)
\* the items of the project at hand, and those that have an issue as content
ListedItems == projects[project_id].items

WithContent == {i \in DOMAIN ListedItems : ListedItems[i] # NoId}

\* C22: the map build_project_item_map returns has, for every item of every
\* page of the listing that has an issue, the id of the item under the number
\* of the issue, and nothing else; it is empty for a project without items
C22_ItemMapIsComplete ==
    upc = "returned" =>
        /\ DOMAIN item_map = {repo_issues[ListedItems[i]].number : i \in WithContent}
        /\ \A i \in WithContent : item_map[repo_issues[ListedItems[i]].number] = i
        /\ ListedItems = << >> => item_map = EmptyMap

\* three items on two pages: the item of the second page is in the map
C22_Witness ==
    /\ upc = "returned"
    /\ Len(ListedItems) = 3
    /\ Len(calls) = 2
    /\ WithContent = {1, 2, 3}
    /\ item_map[repo_issues[ListedItems[3]].number] = 3

\* the map of a project without items
C22_EmptyProject ==
    /\ upc = "returned"
    /\ ListedItems = << >>
    /\ item_map = EmptyMap

(***************************************************************************)
(* Claims about the custom fields and the labels (checked under Spec).     *)
(***************************************************************************)
\* the fields setup_custom_fields has dealt with so far in the run at hand
FieldsDone == {FieldNames[i] : i \in 1..(sub - 1)}

\* the fields step of the run of the log ran to its end
FieldsCompleted(log) ==
    \E i \in DOMAIN log : log[i].op = "save_config" /\ log[i].step = "fields"

\* C23: setup_custom_fields creates a field only when the project has no field
\* of that name; the id and the option mapping of a field that exists are
\* returned as the project has them; a sync that follows one whose fields step
\* ran to its end creates no field.
C23_ExistingFieldsAreReused ==
    /\ \A i \in DOMAIN calls :
          calls[i].op = "createProjectV2Field" => calls[i].title \notin DOMAIN existing_fields
    /\ eng = "fields" =>
          \A name \in FieldsDone \cap DOMAIN existing_fields :
              /\ field_ids[name] = existing_fields[name].id
              /\ OptionsKey(name) # "" =>
                     field_ids[OptionsKey(name)] = existing_fields[name].options
    /\ \A k \in DOMAIN outcomes :
          FieldsCompleted(outcomes[k].calls) =>
              \A m \in (k + 1)..Len(RunLogs) :
                  CallsOf(RunLogs[m], "createProjectV2Field") = << >>

\* the second sync has set up its fields on the project of the first and has
\* created none
C23_Witness ==
    /\ Len(outcomes) = 1
    /\ FieldsCompleted(outcomes[1].calls)
    /\ Len(CallsOf(outcomes[1].calls, "createProjectV2Field")) = Len(FieldNames)
    /\ FieldsCompleted(calls)
    /\ CallsOf(calls, "createProjectV2Field") = << >>
    /\ DOMAIN existing_fields = Range(FieldNames)
    /\ field_ids["Phase"] = existing_fields["Phase"].id
    /\ field_ids["Phase_options"] = existing_fields["Phase"].options

\* a sync that follows one that failed among the field calls creates the
\* fields that are missing, and only those
C23_MissingFieldsAreCreated ==
    /\ Len(outcomes) = 1
    /\ FieldsCompleted(calls)
    /\ CallsOf(calls, "createProjectV2Field") # << >>
    /\ Len(CallsOf(calls, "createProjectV2Field")) < Len(FieldNames)

\* the names of the labels the log asked for, in order
LabelsAsked(log) ==
    LET asked == CallsOf(log, "createLabel") IN [i \in DOMAIN asked |-> asked[i].title]

\* one label per phase, one per user story, the four priorities, "parallel"
LabelsWanted ==
    {"phase-" \o ToString(doc.phases[i].number) : i \in DOMAIN doc.phases}
    \cup {"user-story-" \o Lower(us) : us \in UserStories(doc)}
    \cup {"p-critical", "p-high", "p-medium", "p-low", "parallel"}

\* the run at hand has left the labels step
PastLabels ==
    \/ eng \in {"hierarchy", "values", "group_values", "completion", "deps", "persist", "done"}
    \/ \E i \in DOMAIN calls : calls[i].step \in AfterFields \ {"labels"}

\* C24: a create-label call that fails does not end the sync: each label that
\* follows is still asked for, one per phase, one per user story, the four
\* priorities and "parallel", each once, and the sync goes on to the
\* hierarchy.
C24_LabelFailureIsSwallowed ==
    /\ (eng = "failed" /\ calls # << >>) => calls[Len(calls)].op # "createLabel"
    /\ eng = "labels" =>
          /\ Len(LabelsAsked(calls)) = sub - 1
          /\ Range(LabelsAsked(calls)) \subseteq LabelsWanted
    /\ PastLabels =>
          /\ Range(LabelsAsked(calls)) = LabelsWanted
          /\ Len(LabelsAsked(calls)) = Cardinality(LabelsWanted)

\* a create-label call failed, the labels after it were asked for and the
\* hierarchy was built
C24_Witness ==
    /\ \E i \in DOMAIN calls :
          /\ calls[i].op = "createLabel" /\ ~calls[i].ok
          /\ calls[i].title = "phase-1"
          /\ "phase-1" \notin labels
          /\ \E j \in DOMAIN calls : j > i /\ calls[j].op = "createLabel" /\ calls[j].ok
    /\ "parallel" \in labels
    /\ \E i \in DOMAIN calls : calls[i].op = "createIssue"
    /\ eng = "done"

(***************************************************************************)
(* Claims about parse_tasks_md (checked under SpecT).                      *)
(***************************************************************************)
\* the text starts with the heading "## Phase 3.1: Foundation" and has no
\* other phase heading
DecimalHeadingOnly ==
    /\ lines[1] = DecimalPhaseLine
    /\ \A i \in 2..Len(lines) : lines[i].mark # "## Phase "

\* C25: a text whose phase heading is "## Phase 3.1: Foundation" yields one
\* phase whose number reads "3.1", and every task under the heading, direct
\* or of a group, carries the phase number "3.1".
C25_DecimalPhaseNumberIsKept ==
    (upc = "returned" /\ DecimalHeadingOnly) =>
        /\ Len(doc.phases) = 1
        /\ ToString(doc.phases[1].number) = "3.1"
        /\ \A i \in DOMAIN DocAllTasks(doc) :
               ToString(DocAllTasks(doc)[i].phase_number) = "3.1"

\* the heading with the decimal number, a task, a group and a task of the
\* group: the document returned has no phase
C25_HeadingIsNotRecognized ==
    /\ upc = "returned"
    /\ lines = << DecimalPhaseLine, TaskLine, GroupLine, DoneTaskLine >>
    /\ doc.phases = << >>

\* the lines of the text that open a phase, in order: phase headings the
\* loop does not skip as format lines
PhaseHeadings == SelectSeq(lines, LAMBDA l : PhaseMatch(l) /\ ~IsSkipped(l))

\* the position in the text of the k-th phase heading
RECURSIVE HeadingAt(_, _)
HeadingAt(k, from) ==
    IF PhaseMatch(lines[from]) /\ ~IsSkipped(lines[from])
    THEN IF k = 1 THEN from ELSE HeadingAt(k - 1, from + 1)
    ELSE HeadingAt(k, from + 1)

\* the lines of the k-th phase of the text: from its heading to the next one
LinesOfPhase(k) ==
    SubSeq(lines, HeadingAt(k, 1) + 1,
           IF k < Len(PhaseHeadings) THEN HeadingAt(k + 1, 1) - 1 ELSE Len(lines))

\* the group headings among the lines of a phase, in order
GroupHeadings(phase_lines) == SelectSeq(phase_lines, LAMBDA l : GroupMatch(l) /\ ~IsSkipped(l))

\* C26: every recognized phase heading yields exactly one Phase of doc.phases,
\* in the order of the headings, and every recognized group heading of a phase
\* yields exactly one StoryGroup of the groups of that phase, in the order of
\* the headings, the phase and the group that are open at the end of the text
\* included.
C26_HeadingsYieldPhasesAndGroups ==
    upc = "returned" =>
        /\ Len(doc.phases) = Len(PhaseHeadings)
        /\ \A k \in DOMAIN PhaseHeadings :
              /\ doc.phases[k].number = IntOf(PhaseHeadings[k].num)
              /\ doc.phases[k].title = ParsePhaseHeading(PhaseHeadings[k].text)
              /\ LET headings == GroupHeadings(LinesOfPhase(k))
                 IN  /\ Len(doc.phases[k].groups) = Len(headings)
                     /\ \A g \in DOMAIN headings :
                           /\ doc.phases[k].groups[g].title = headings[g].text
                           /\ doc.phases[k].groups[g].user_story = headings[g].us

\* a phase with a group that a second heading closes, and a second phase with
\* a group that is open when the text ends
C26_Witness ==
    /\ upc = "returned"
    /\ lines = << PhaseOneLine, GroupLine, PhaseTwoLine, StoryGroupLine >>
    /\ Len(doc.phases) = 2
    /\ doc.phases[1].groups = << StoryGroup("Task Group: API", "", << >>) >>
    /\ doc.phases[2].groups = << StoryGroup("Stories", "US1", << >>) >>

\* two groups of one phase, in the order of their headings
C26_GroupsInOrder ==
    /\ upc = "returned"
    /\ lines = << PhaseTwoLine, StoryGroupLine, GroupLine, PhaseOneLine >>
    /\ doc.phases[1].number = 2
    /\ doc.phases[1].groups[1].title = "Stories"
    /\ doc.phases[1].groups[2].title = "Task Group: API"
    /\ doc.phases[2].number = 1

\* the task lines of the text, and those that follow its first phase heading
TaskLines(text) == SelectSeq(text, LAMBDA l : TaskMatch(l))

AfterFirstHeading ==
    IF PhaseHeadings = << >> THEN << >>
    ELSE SubSeq(lines, HeadingAt(1, 1) + 1, Len(lines))

\* the tasks of the groups of the document, and its direct tasks
GroupedTasks(d) ==
    Concat([p \in DOMAIN d.phases |->
              Concat([g \in DOMAIN d.phases[p].groups |-> d.phases[p].groups[g].tasks])])

DirectTasks(d) == Concat([p \in DOMAIN d.phases |-> d.phases[p].direct_tasks])

\* the task lines among the lines of a phase that come before its first group
\* heading, and those that come after it
BeforeGroups(phase_lines) ==
    LET first == SelectSeq([i \in DOMAIN phase_lines |-> i],
                           LAMBDA i : GroupMatch(phase_lines[i]) /\ ~IsSkipped(phase_lines[i]))
    IN  IF first = << >> THEN phase_lines ELSE SubSeq(phase_lines, 1, first[1] - 1)

\* C27: a recognized task line is attached to exactly one container, the open
\* group if there is one and the direct tasks of the open phase otherwise, and
\* is discarded exactly when no phase is open: task_count is the number of
\* recognized task lines after the first phase heading.
C27_TaskJoinsOneContainer ==
    upc = "returned" =>
        /\ Len(DocAllTasks(doc)) = Len(TaskLines(AfterFirstHeading))
        /\ \A k \in DOMAIN doc.phases :
              /\ Len(doc.phases[k].direct_tasks) = Len(TaskLines(BeforeGroups(LinesOfPhase(k))))
              /\ Len(PhaseAllTasks(doc.phases[k])) = Len(TaskLines(LinesOfPhase(k)))
              /\ \A i \in DOMAIN doc.phases[k].direct_tasks :
                    doc.phases[k].direct_tasks[i].group_title = ""
              /\ \A g \in DOMAIN doc.phases[k].groups :
                    \A i \in DOMAIN doc.phases[k].groups[g].tasks :
                        doc.phases[k].groups[g].tasks[i].group_title = doc.phases[k].groups[g].title

\* a task line before the first heading, a direct task and a task of a group
C27_Witness ==
    /\ upc = "returned"
    /\ lines = << TaskLine, PhaseOneLine, DoneTaskLine, GroupLine >>
    /\ Len(DocAllTasks(doc)) = 1
    /\ doc.phases[1].direct_tasks[1].id = "T002"

\* a direct task, then a task of the group that was opened after it
C27_GroupTask ==
    /\ upc = "returned"
    /\ lines = << PhaseOneLine, TaskLine, GroupLine, DoneTaskLine >>
    /\ doc.phases[1].direct_tasks[1].id = "T001"
    /\ doc.phases[1].groups[1].tasks[1].id = "T002"
    /\ Len(DocAllTasks(doc)) = 2

\* a line of none of the shapes the parser knows
Unrecognized(line) ==
    /\ ~IsSkipped(line)
    /\ ~TitleMatch(line)
    /\ ~PhaseMatch(line)
    /\ ~GroupMatch(line)
    /\ ~MetadataMatch(line)
    /\ ~TaskMatch(line)

\* the loop has gone through a line of no recognized shape
SkipsUnrecognized ==
    /\ upc = "parsing"
    /\ lines' # lines
    /\ Unrecognized(lines'[Len(lines')])

\* an unrecognized line leaves the locals of the parser and the document as
\* they are
C28_UnrecognizedLineIsSkipped ==
    [][SkipsUnrecognized =>
          UNCHANGED << doc, current_phase, current_group, phase_number, upc >>]_vars

\* C28: parse_tasks_md returns a document for every text, it never raises,
\* and a line of no recognized shape leaves the current phase, the current
\* group, the phase number and the document unchanged.
C28_ParseNeverRaises ==
    /\ [](upc # "raised")
    /\ C28_UnrecognizedLineIsSkipped

\* the heading whose number has more digits than int() converts: the call
\* has raised ValueError
C28_LongNumberRaises ==
    /\ upc = "raised"
    /\ lines[Len(lines)] = LongPhaseLine
    /\ NumLen(LongPhaseLine.num) = MaxStrDigits + 1

\* a note, a heading with a decimal number and a task id of two digits have
\* gone by and nothing was parsed
C28_NothingParsed ==
    /\ upc = "returned"
    /\ lines = << NoteLine, DecimalPhaseLine, ShortIdLine >>
    /\ doc = TasksDocument("Untitled", << >>)

(***************************************************************************)
(* Claims about _create_issue (checked under SpecH).                       *)
(***************************************************************************)
\* the entity the walk is at, its title, its body and its parent
AtEntity == hpc = "walk" /\ idx <= Len(Visits(doc))

EntityTitle == VisitTitle(doc, Visits(doc)[idx])

EntityBody == VisitBody(doc, Visits(doc)[idx])

EntityParent == VisitParent(Visits(doc)[idx], phase_issue, group_issue)

\* the issues of the index that have the title and the parent
Held(index, title, parent) ==
    SelectSeq(Get(index, title, << >>), LAMBDA issue : issue.parent = parent)

\* one _create_issue call has returned
Returns == AtEntity /\ idx' = idx + 1

\* the id of the issue the call returned, as create_hierarchy stored it
ReturnedId ==
    LET v == Visits(doc)[idx]
    IN  CASE v.kind = "phase" -> phase_issues'[doc.phases[v.pi].number]
          [] v.kind = "group" ->
                group_issues'[GroupKey(doc.phases[v.pi], doc.phases[v.pi].groups[v.gi])]
          [] OTHER -> task_issues'[v.task.id]

\* the call reused the first issue of the index that has the title and the
\* parent: nothing was created
ReusedHeld ==
    /\ Len(repo_issues') = Len(repo_issues)
    /\ CallsOf(calls', "createIssue") = CallsOf(calls, "createIssue")
    /\ ReturnedId = Held(existing_issues_by_title, EntityTitle, EntityParent)[1].id
    /\ DOMAIN existing_issues_by_title' = DOMAIN existing_issues_by_title
    /\ \A t \in DOMAIN existing_issues_by_title :
          Len(existing_issues_by_title'[t]) = Len(existing_issues_by_title[t])

\* the call created one issue with the title and the parent and put it into
\* the index
CreatedOne ==
    /\ Len(repo_issues') = Len(repo_issues) + 1
    /\ Len(CallsOf(calls', "createIssue")) = Len(CallsOf(calls, "createIssue")) + 1
    /\ repo_issues'[Len(repo_issues')].title = EntityTitle
    /\ repo_issues'[Len(repo_issues')].parent = EntityParent
    /\ ReturnedId = Len(repo_issues')
    /\ \E i \in DOMAIN Held(existing_issues_by_title', EntityTitle, EntityParent) :
          Held(existing_issues_by_title', EntityTitle, EntityParent)[i].id = Len(repo_issues')

\* no two issues the call at hand created have the same title and parent
OneIssuePerTitleAndParent ==
    \A i, j \in DOMAIN CallsOf(calls, "createIssue") :
        (/\ CallsOf(calls, "createIssue")[i].title = CallsOf(calls, "createIssue")[j].title
         /\ CallsOf(calls, "createIssue")[i].parent = CallsOf(calls, "createIssue")[j].parent)
            => i = j

\* C29: _create_issue reuses an issue exactly when the index, the issues
\* loaded when the call began and those created since, holds one with the
\* title and the parent id; otherwise it creates exactly one issue and puts it
\* into the index.  One call of create_hierarchy creates at most one issue per
\* title and parent id, so entities of the same title under the same parent
\* share one issue.
C29_ReusesIffIndexed ==
    /\ [](OneIssuePerTitleAndParent)
    /\ [][Returns =>
            IF Held(existing_issues_by_title, EntityTitle, EntityParent) # << >>
            THEN ReusedHeld
            ELSE CreatedOne]_vars

\* the two groups titled Core of one phase have one issue, created for the
\* first of them and reused for the second, as the issues of their tasks are
C29_Witness ==
    /\ doc = DocSameGroupTitleTwoStories
    /\ Len(results) = 1
    /\ Len(Visits(doc)) = 7
    /\ Len(CallsOf(results[1].calls, "createIssue")) = 4
    /\ Len(SelectSeq(results[1].calls,
                     LAMBDA c : c.op = "createIssue" /\ c.title = "Core")) = 1
    /\ DOMAIN results[1].group_issues = {"1:Core"}

\* the issue a _create_issue call reuses, if the index holds one
StoredIssue == Held(existing_issues_by_title, EntityTitle, EntityParent)[1]

\* a _create_issue call that reused an issue has returned
ReturnsReused ==
    Returns /\ Held(existing_issues_by_title, EntityTitle, EntityParent) # << >>

\* one updateIssue was issued if the body computed differs from the one
\* stored, none otherwise; of the issues of the repository only the body of
\* the reused one has changed; the index holds the body computed
UpdatedBodyOnly ==
    /\ CallsOf(calls', "updateIssue") =
          CallsOf(calls, "updateIssue")
          \o (IF EntityBody # StoredIssue.body
              THEN << Call("updateIssue", "hierarchy", StoredIssue.id, NoId, "", TRUE) >>
              ELSE << >>)
    /\ repo_issues' = [i \in DOMAIN repo_issues |->
                         IF repo_issues[i].id = StoredIssue.id
                         THEN [repo_issues[i] EXCEPT !.body = EntityBody]
                         ELSE repo_issues[i]]
    /\ Held(existing_issues_by_title', EntityTitle, EntityParent)[1].body = EntityBody

\* the first half of C30, which holds: a reused issue is updated exactly when
\* its body differs, in its body alone, and the cached body follows
C30_UpdatesIffBodyDiffers == [][ReturnsReused => UpdatedBodyOnly]_vars

\* a create_hierarchy call that follows a complete one on the same document
\* issues no updateIssue
RerunUpdatesNoBody ==
    \A k \in 2..Len(results) : CallsOf(results[k].calls, "updateIssue") = << >>

\* C30: for a reused issue an updateIssue mutation is issued exactly when the
\* body computed differs from the body stored, and it changes the body alone;
\* the cached body is the computed one afterwards, so a second run on the
\* unchanged document issues no body update.
C30_RerunIssuesNoBodyUpdate ==
    /\ C30_UpdatesIffBodyDiffers
    /\ [](RerunUpdatesNoBody)

\* the documents in which entities of different bodies have the same title
\* and parent
SharingDocs == {DocSameGroupTitleTwoStories, DocGroupNamedAsTask}

\* the second call issues no updateIssue for a document none of whose
\* entities share an issue with an entity of another body
C30_RerunUpdatesOnlySharedIssues ==
    doc \notin SharingDocs => RerunUpdatesNoBody

\* two groups titled Core with different user stories share one issue: the
\* second call rewrites its body for each of them
C30_SharedIssueIsRewritten ==
    /\ doc = DocSameGroupTitleTwoStories
    /\ Len(results) = 2
    /\ repo_issues[1].title = "Phase 1: Setup"
    /\ CallsOf(results[2].calls, "createIssue") = << >>
    /\ Len(CallsOf(results[2].calls, "updateIssue")) = 2

\* a stale issue with the title of the first phase was there: the first call
\* rewrote its body, the second call left it alone
C30_StaleBodyIsUpdatedOnce ==
    /\ doc = DocCoverage
    /\ Len(results) = 2
    /\ Len(CallsOf(results[1].calls, "updateIssue")) = 1
    /\ CallsOf(results[2].calls, "updateIssue") = << >>

\* ---- C31 ----

\* the sequence a running or returned loop pages through
PagedSequence ==
    IF upc \in {"loading_issues", "issues_loaded"} THEN repo_issues
    ELSE projects[project_id].items

\* the first item of the whole listing whose content has the number, NoId
\* when there is none
FirstItemOf(listing, issue_number) ==
    LET hits == {i \in DOMAIN listing :
                    listing[i] # NoId /\ NumberOf(listing[i]) = issue_number}
    IN  IF hits = {} THEN NoId ELSE CHOOSE i \in hits : \A j \in hits : i <= j

\* every request after the first carries the end cursor of the response before
\* it, and is sent only when that response had a next page
CursorsChain ==
    /\ Len(calls) > 0 => calls[1].id = 0
    /\ \A k \in 2..Len(calls) :
        /\ HasNextPage(PagedSequence, calls[k - 1].id)
        /\ calls[k].id = EndCursor(PagedSequence, calls[k - 1].id)

\* a loop that returns without a hit has asked for the last page
ReadToTheEnd == ~HasNextPage(PagedSequence, calls[Len(calls)].id)

\* C31: each of the three pagination loops (_load_existing_issues,
\* _load_project_issue_ids, _get_project_item_id) asks for the next page with
\* the end cursor of the response before it until a response has no next
\* page, with no cap on the pages, so that its result covers every page: the
\* index holds every issue of the repository, the set every content id of
\* the project, and the lookup finds the item of a number wherever it is
\* listed and reads to the end before it returns None.
C31_LoopsCoverEveryPage ==
    /\ upc \in {"loading_issues", "issues_loaded", "loading_ids", "ids_loaded",
                "looking_up", "looked_up"} => CursorsChain
    /\ upc = "issues_loaded" =>
        /\ ReadToTheEnd
        /\ existing_issues_by_title = LoadExistingIssues(repo_issues)
    /\ upc = "ids_loaded" =>
        /\ ReadToTheEnd
        /\ project_issue_ids = LoadProjectIssueIds(projects[project_id].items)
    /\ upc = "looked_up" =>
        /\ lookup.item_id = FirstItemOf(projects[project_id].items, lookup.issue_number)
        /\ lookup.item_id = NoId => ReadToTheEnd

\* three items on two pages, and the lookup of the number of the item that is
\* alone on the second page returns that item after two requests
C31_Witness ==
    /\ upc = "looked_up"
    /\ Len(projects[project_id].items) = MaxItems
    /\ Len(calls) = 2
    /\ calls[2].id = PageSize
    /\ lookup.item_id = MaxItems
    /\ lookup.issue_number = NumberOf(projects[project_id].items[MaxItems])

\* the issue that is alone on the last page of the repository is in the index
C31_LastIssueIndexed ==
    /\ upc = "issues_loaded"
    /\ Len(calls) = 2
    /\ "Last" \in DOMAIN existing_issues_by_title
    /\ existing_issues_by_title["Last"][1].id = MaxItems

\* the content id of the item on the last page is in the set
C31_LastIdLoaded ==
    /\ upc = "ids_loaded"
    /\ Len(calls) = 2
    /\ projects[project_id].items[MaxItems] \in project_issue_ids

\* ---- C32 ----

\* the _get_project_item_id calls of the field-value step of the current run,
\* each of which requests the project-item listing at least once
ListingReads == SelectSeq(calls, LAMBDA c : c.op = "GetProjectItemId" /\ c.step = "values")

\* C32: during field-value assignment the project-item listing is read once
\* per sync and not again for each task or group issue, so that the number of
\* listing requests of set_field_values_all does not grow with the issues.
C32_ListingReadOncePerSync == Len(ListingReads) <= 1

\* what the code does: one lookup, and so one read of the listing, for each
\* task issue and each group issue it has got to
C32_ListingReadPerIssue ==
    /\ eng = "values" => Len(ListingReads) \in {sub - 1, sub}
    /\ eng = "group_values" =>
          Len(ListingReads) \in {Len(TaskKeysOf[doc]) + sub - 1, Len(TaskKeysOf[doc]) + sub}
    /\ Len(ListingReads) <= Len(TaskKeysOf[doc]) + Len(GroupKeyPartsOf[doc])

\* the listing was read for each of the two tasks and for the group
C32_ThreeReads ==
    /\ Len(ListingReads) = 3
    /\ ListingReads[1].id # ListingReads[2].id
    /\ ListingReads[2].id # ListingReads[3].id

\* ---- C33 ----

\* the loop over the group issues of set_field_values_all has ended
GroupValuesDone == eng \in {"completion", "deps", "persist", "done"}

\* the project item of the issue of a group key, 0 without one
GroupItem(key) ==
    ProjectItemId(projects[project_id].items, repo_issues[group_issues[key]].number)

\* the phase a group key was made for (hierarchy_builder.py line 122)
OwningPhase(parts) ==
    FirstWhere(SelectSeq(doc.phases, LAMBDA p : ToString(p.number) = parts.phase_number), NoPhase)

\* the fields of an item that have a value
FieldsOf(item_id) ==
    {k[3] : k \in {key \in DOMAIN field_values : key[1] = project_id /\ key[2] = item_id}}

\* C33: for every group issue of the group-issue map that has a project item,
\* set_field_values_all sets the Phase field of the item to the option of the
\* phase that owns the group, and sets no other field of the item.
C33_GroupGetsItsPhaseOnly ==
    GroupValuesDone =>
        \A i \in DOMAIN GroupKeyPartsOf[doc] :
            LET parts == GroupKeyPartsOf[doc][i]
                key == parts.phase_number \o ":" \o parts.group_title
                item_id == GroupItem(key)
            IN  item_id # 0 =>
                    /\ FieldsOf(item_id) = {"Phase"}
                    /\ field_values[<< project_id, item_id, "Phase" >>]
                         = field_ids["Phase_options"][PhaseTitle(OwningPhase(parts))]

\* what the code does: the item of a group issue is looked up and is given no
\* value of any field
C33_GroupItemGetsNoValue ==
    \A i \in DOMAIN GroupKeyPartsOf[doc] :
        LET parts == GroupKeyPartsOf[doc][i]
            key == parts.phase_number \o ":" \o parts.group_title
        IN  key \in DOMAIN group_issues => FieldsOf(GroupItem(key)) = {}

\* the group loop has ended for a group whose issue is in the project, whose
\* phase has an option, and whose lookup was issued
C33_GroupWithItemAndOption ==
    /\ GroupValuesDone
    /\ \E i \in DOMAIN GroupKeyPartsOf[doc] :
        LET parts == GroupKeyPartsOf[doc][i]
            key == parts.phase_number \o ":" \o parts.group_title
        IN  /\ key \in DOMAIN group_issues
            /\ GroupItem(key) # 0
            /\ OwningPhase(parts) # NoPhase
            /\ PhaseTitle(OwningPhase(parts)) \in DOMAIN field_ids["Phase_options"]
            /\ \E c \in DOMAIN calls :
                  /\ calls[c].op = "GetProjectItemId"
                  /\ calls[c].id = group_issues[key]

\* ---- C34 ----

\* setup_custom_fields has returned and its result is stored
FieldsReturned == eng = "labels"

\* C34: after setup_custom_fields the Phase option mapping returned has one
\* option for each phase of the current document, named "Phase <n>: <title>",
\* and the User Story option mapping has every user-story tag of the current
\* document and "N/A", also when the project had the fields from an earlier
\* sync of another version of the document.
C34_OptionsAreOfTheCurrentDocument ==
    FieldsReturned =>
        /\ DOMAIN field_ids["Phase_options"] = Range(PhaseNames(doc))
        /\ DOMAIN field_ids["UserStory_options"] = UserStories(doc) \cup {"N/A"}

\* what the code does: the options are those of the current document for a
\* field this call has created, and those the project holds for a field that
\* was there
C34_OptionsAreOfTheFieldInUse ==
    FieldsReturned =>
        /\ "Phase" \notin DOMAIN existing_fields =>
              DOMAIN field_ids["Phase_options"] = Range(PhaseNames(doc))
        /\ "User Story" \notin DOMAIN existing_fields =>
              DOMAIN field_ids["UserStory_options"] = UserStories(doc) \cup {"N/A"}
        /\ "Phase" \in DOMAIN existing_fields =>
              field_ids["Phase_options"] = existing_fields["Phase"].options
        /\ "User Story" \in DOMAIN existing_fields =>
              field_ids["UserStory_options"] = existing_fields["User Story"].options

\* the document has grown by a phase and a user story since the sync that
\* made the fields: the mappings returned lack the options of both
C34_StaleOptions ==
    /\ FieldsReturned
    /\ doc = DocSyncGrown
    /\ {"Phase", "User Story"} \subseteq DOMAIN existing_fields
    /\ "Phase 2: Build" \notin DOMAIN field_ids["Phase_options"]
    /\ "US2" \notin DOMAIN field_ids["UserStory_options"]

\* both fields were created by this call for the grown document
C34_FreshOptions ==
    /\ FieldsReturned
    /\ doc = DocSyncGrown
    /\ DOMAIN existing_fields = {}
    /\ DOMAIN field_ids["Phase_options"] = {"Phase 1: Setup", "Phase 2: Build"}
    /\ DOMAIN field_ids["UserStory_options"] = {"US1", "US2", "N/A"}

\* ---- C35 ----

\* the waits between the attempts of the current call
Backoffs == SelectSeq(sleeps, LAMBDA s : s.at = "retry")

\* what the last POST of the current call came to
LastOutcome == posts[Len(posts)]

\* a timeout, a 5xx response or a rate-limit signal
Transient == {"timeout", "server_error", "forbidden", "rate_limit_errors"}

\* the call makes at most retry_count attempts, waits 2 ** attempt seconds
\* after the attempt of that index, and raises nothing but a
\* GitHubGraphQLError
AttemptsAreBounded ==
    /\ Len(posts) <= retry_count
    /\ Len(Backoffs) = IF xpc = "loop" THEN Len(posts) ELSE IF posts = << >> THEN 0 ELSE Len(posts) - 1
    /\ \A i \in DOMAIN Backoffs : Backoffs[i].seconds = 2 ^ (i - 1)
    /\ xpc = "raised" => IsGitHubGraphQLError(exc)
    /\ xpc = "raised" /\ posts = << >> => retry_count = 0

\* C35: execute retries an operation with exponential backoff when it hits a
\* timeout, a 5xx response or a rate-limit signal, makes at most retry_count
\* attempts, and raises GitHubGraphQLError once the retries are exhausted.
C35_RetriesTransientFailures ==
    /\ AttemptsAreBounded
    /\ (xpc = "raised" /\ posts # << >> /\ LastOutcome \in Transient) =>
           Len(posts) = retry_count

\* C35 as amended: a timeout, a 5xx response, and any other HTTP error are
\* retried with waits of 1, 2, 4, ... seconds and end the call with
\* GitHubGraphQLError only at attempt retry_count; a rate-limit signal (status
\* 403, or a GraphQL error that names the rate limit) is not retried, it
\* ends the call with RateLimitError at the attempt it comes at; the call
\* never makes more than retry_count attempts.
C35_RetriesTimeoutsAndServerErrors ==
    /\ AttemptsAreBounded
    /\ \A i \in 1..(Len(posts) - 1) : posts[i] \in Retried
    /\ (xpc = "raised" /\ posts # << >> /\ LastOutcome \in Retried) =>
           /\ Len(posts) = retry_count
           /\ exc = "GitHubGraphQLError"
    /\ (xpc = "raised" /\ posts # << >> /\ LastOutcome \in {"forbidden", "rate_limit_errors"}) =>
           exc = "RateLimitError"
    /\ (xpc = "loop" /\ posts # << >>) => LastOutcome \in Retried

\* three attempts came to a timeout, a 5xx response and a timeout: the call
\* has waited 1 and 2 seconds and raised GitHubGraphQLError
C35_Witness ==
    /\ xpc = "raised"
    /\ retry_count = 3
    /\ posts = << "timeout", "server_error", "timeout" >>
    /\ Backoffs = << [at |-> "retry", seconds |-> 1], [at |-> "retry", seconds |-> 2] >>
    /\ exc = "GitHubGraphQLError"

\* a 403 at the first of three attempts ends the call
C35_RateLimitIsNotRetried ==
    /\ xpc = "raised"
    /\ retry_count = 3
    /\ posts = << "forbidden" >>
    /\ exc = "RateLimitError"

\* ---- C36 ----

\* the lines of a phase that come before its first group heading
BeforeFirstGroup(phase_lines) ==
    LET gs == {i \in DOMAIN phase_lines :
                  GroupMatch(phase_lines[i]) /\ ~IsSkipped(phase_lines[i])}
    IN  IF gs = {} THEN phase_lines
        ELSE SubSeq(phase_lines, 1, (CHOOSE i \in gs : \A j \in gs : i <= j) - 1)

\* the text of the last line with the mark among the lines, "" without one
LastText(ls, mark) ==
    LET hits == {i \in DOMAIN ls : ls[i].mark = mark /\ ls[i].text # ""}
    IN  IF hits = {} THEN "" ELSE ls[CHOOSE i \in hits : \A j \in hits : i >= j].text

\* C36: a Purpose, Goal, Checkpoint or Independent Test line sets the field
\* of the current phase only while a phase is open and no group is open:
\* each field of each phase of the document returned is the text of the last
\* such line between the heading of the phase and its first group heading,
\* and is unset when there is none, whatever lines of that kind come before
\* the first phase heading or after a group heading.
C36_MetadataOnlyBeforeGroups ==
    upc = "returned" =>
        \A k \in DOMAIN PhaseHeadings :
            LET head == BeforeFirstGroup(LinesOfPhase(k))
            IN  /\ doc.phases[k].purpose = LastText(head, "**Purpose**: ")
                /\ doc.phases[k].goal = LastText(head, "**Goal**: ")
                /\ doc.phases[k].checkpoint = LastText(head, "**Checkpoint**: ")
                /\ doc.phases[k].independent_test = LastText(head, "**Independent Test**: ")

\* a goal before the group heading is taken, a checkpoint after it is not
C36_Witness ==
    /\ upc = "returned"
    /\ lines = << PhaseOneLine, GoalLine, GroupLine, CheckpointLine >>
    /\ doc.phases[1].goal = "Ship"
    /\ doc.phases[1].checkpoint = ""
    /\ Len(doc.phases[1].groups) = 1

\* the next phase heading opens metadata again
C36_NextPhaseTakesMetadata ==
    /\ upc = "returned"
    /\ lines = << PhaseOneLine, GroupLine, PhaseTwoLine, IndependentTestLine >>
    /\ doc.phases[2].independent_test = "Run"
    /\ doc.phases[1].independent_test = ""

\* a metadata line before the first phase heading is dropped
C36_NoPhaseNoMetadata ==
    /\ upc = "returned"
    /\ lines = << PurposeLine, PhaseOneLine >>
    /\ doc.phases[1].purpose = ""

\* ---- C37 ----

\* the tasks of the document in flattened order: phase by phase, each phase
\* as Phase.all_tasks gives it
Flattened == Concat([pi \in DOMAIN doc.phases |-> TasksOf(pi)])

\* the position of a task in the flattened order
PositionOf(task_id) == CHOOSE i \in DOMAIN Flattened : Flattened[i].id = task_id

\* the (dependent, blocker) pairs of the graph
EdgePairs ==
    {<< DependencyEdges(dep_graph)[i].task_id, DependencyEdges(dep_graph)[i].blocker >> :
        i \in DOMAIN DependencyEdges(dep_graph)}

\* the pairs joined by a path of at most n + 1 edges
RECURSIVE PathPairs(_, _)
PathPairs(pairs, n) ==
    IF n = 0 THEN pairs
    ELSE PathPairs(pairs \cup {<< e[1][1], e[2][2] >> :
                                   e \in {x \in pairs \X pairs : x[1][2] = x[2][1]}},
                   n - 1)

\* the ids of the tasks of the document are all different
UniqueTaskIds ==
    \A i, j \in DOMAIN Flattened : Flattened[i].id = Flattened[j].id => i = j

\* C37: for a document with unique task ids, every edge of the graph that
\* build_dependency_graph returns goes from a task to a task that is strictly
\* earlier in the flattened order, so that no task depends on itself and the
\* graph has no cycle.
C37_EdgesPointBackwards ==
    (Built /\ UniqueTaskIds) =>
        /\ \A e \in EdgePairs :
              /\ e[1] # e[2]
              /\ PositionOf(e[2]) < PositionOf(e[1])
        /\ \A e \in PathPairs(EdgePairs, Len(Flattened)) : e[1] # e[2]

\* a graph over six tasks of two phases with an edge across the phases and
\* edges within each phase
C37_Witness ==
    /\ Built
    /\ UniqueTaskIds
    /\ Len(doc.phases) = 2
    /\ Len(Flattened) = 2 * MaxTasks
    /\ << TasksOf(2)[1].id, TasksOf(1)[1].id >> \in EdgePairs
    /\ << TasksOf(1)[2].id, TasksOf(1)[1].id >> \in EdgePairs
    /\ << TasksOf(2)[2].id, TasksOf(2)[1].id >> \in EdgePairs

\* ---- C38 ----

\* the document without its phases that have no task
WithoutEmptyPhases(d) ==
    [d EXCEPT !.phases = SelectSeq(d.phases, LAMBDA p : PhaseAllTasks(p) # << >>)]

\* the task the phase after phase pi waits for: the last sequential task of
\* the phase, or its last task when all its tasks are parallel
CursorAfter(pi) ==
    LET sequential == {i \in DOMAIN TasksOf(pi) : ~TasksOf(pi)[i].is_parallel}
    IN  IF sequential = {} THEN TasksOf(pi)[Len(TasksOf(pi))].id
        ELSE TasksOf(pi)[CHOOSE i \in sequential : \A j \in sequential : i >= j].id

\* C38: a phase without tasks adds no edge to the graph and does not reset
\* the cross-phase cursor: the graph is that of the document without the
\* phase, and the first task of the phase after it waits for the task the
\* phase before it has left as the cursor.
C38_EmptyPhaseIsTransparent ==
    Built =>
        /\ dep_graph = BuildDependencyGraph(WithoutEmptyPhases(doc))
        /\ \A pi \in DOMAIN doc.phases :
              (/\ TasksOf(pi) = << >>
               /\ pi > 1 /\ pi < Len(doc.phases)
               /\ TasksOf(pi - 1) # << >>
               /\ TasksOf(pi + 1) # << >>) =>
                  CursorAfter(pi - 1) \in Range(Blockers(TasksOf(pi + 1)[1].id))

\* a phase of a sequential task and two parallel tasks, a phase without
\* tasks, and a phase whose first task waits for the sequential task across
\* the empty phase
C38_Witness ==
    /\ Built
    /\ Len(doc.phases) = 3
    /\ TasksOf(2) = << >>
    /\ Len(TasksOf(1)) = 3
    /\ ~TasksOf(1)[1].is_parallel /\ TasksOf(1)[2].is_parallel /\ TasksOf(1)[3].is_parallel
    /\ TasksOf(3) # << >>
    /\ Blockers(TasksOf(3)[1].id)[1] = TasksOf(1)[1].id
    /\ dep_graph # << >>

\* ---- C39 ----

\* hash and time of the last sync, as a configuration holds them
SyncStateOf(cfg) == << cfg.last_synced_tasks_md_hash, cfg.last_synced_at >>

\* the tasks file as it was synced, and the file after an edit
EditedContent == TasksDocument("Sync edited", DocSync.phases)

Contents == {DocSync, EditedContent}

\* no step but the last one of a run touches hash and time, in memory or on
\* disk
StepKeepsSyncState ==
    eng' # "done" =>
        /\ SyncStateOf(config') = SyncStateOf(config)
        /\ SyncStateOf(LoadConfig(disk')) = SyncStateOf(LoadConfig(disk))

\* after a run that failed, needs_sync is true, on the configuration in
\* memory and on the one on disk, for a file that was never synced and for a
\* file that is not the one of the last sync that completed
FailedRunStillNeedsSync ==
    eng = "failed" =>
        /\ SyncStateOf(config) = SyncStateOf(LoadConfig(disk))
        /\ ~SyncCompleted =>
              /\ SyncStateOf(config) = << "", "" >>
              /\ \A c \in Contents : NeedsSync(c, config) /\ NeedsSync(c, LoadConfig(disk))
        /\ SyncCompleted =>
              /\ config.last_synced_tasks_md_hash = CalculateHash(doc)
              /\ \A c \in Contents :
                    CalculateHash(c) # CalculateHash(doc) =>
                        NeedsSync(c, config) /\ NeedsSync(c, LoadConfig(disk))

\* C39: if a step of a run fails, last_synced_tasks_md_hash and
\* last_synced_at keep the values they had, in the configuration in memory
\* and in the one on disk, so that after a failed run needs_sync is still
\* true for a file that was never synced or that has changed since the last
\* sync that completed.
C39_FailedRunKeepsSyncState == [](FailedRunStillNeedsSync) /\ [][StepKeepsSyncState]_vars

\* a run that failed after it had created the project and stored its id: the
\* sync state is unset in memory and on disk
C39_Witness ==
    /\ eng = "failed"
    /\ ~SyncCompleted
    /\ disk.exists
    /\ disk.data.project_id # NoId
    /\ config.project_id # NoId
    /\ SyncStateOf(config) = << "", "" >>
    /\ NeedsSync(doc, LoadConfig(disk))

\* a run that failed after a run that completed: hash and time are those of
\* the first run, and the edited file needs a sync
C39_FailedAfterCompleted ==
    /\ eng = "failed"
    /\ SyncCompleted
    /\ SyncStateOf(LoadConfig(disk)) = << CalculateHash(DocSync), Timestamp(1) >>
    /\ NeedsSync(EditedContent, LoadConfig(disk))
    /\ ~NeedsSync(DocSync, LoadConfig(disk))

\* ---- C40 ----

\* the requests a step has added to the log
NewCalls ==
    IF Len(calls') > Len(calls) THEN SubSeq(calls', Len(calls) + 1, Len(calls')) ELSE << >>

\* the step leaves the issue as it is: its fields and its state, whether it
\* is in the project, and no mutation is asked for it
Untouched(i) ==
    /\ i \in DOMAIN repo_issues'
    /\ repo_issues'[i] = repo_issues[i]
    /\ (i \in Range(projects'[project_id].items)) = (i \in Range(projects[project_id].items))
    /\ \A c \in DOMAIN NewCalls :
          NewCalls[c].op \in {"updateIssue", "addProjectV2ItemById"} => NewCalls[c].id # i

\* the issue has the title and the parent id of the entity the walk is at
MatchesEntityAtHand(i) ==
    /\ AtEntity
    /\ repo_issues[i].title = EntityTitle
    /\ repo_issues[i].parent = EntityParent

\* a top-level issue whose title is the title of no phase: it matches no
\* entity, as the issues of groups and tasks have a parent
IsStranger(i) ==
    /\ repo_issues[i].parent = NoId
    /\ \A k \in DOMAIN Visits(doc) :
          Visits(doc)[k].kind = "phase" => VisitTitle(doc, Visits(doc)[k]) # repo_issues[i].title

StepSparesStrangers ==
    \A i \in DOMAIN repo_issues :
        (~MatchesEntityAtHand(i) \/ IsStranger(i)) => Untouched(i)

\* C40: create_hierarchy never mutates a remote issue that matches no entity
\* of the document by title and parent id: no step updates the body of such
\* an issue, adds it to the project, closes it or deletes it; a step touches
\* no issue but one that has the title and the parent id of the entity it is
\* at.
C40_StrangersAreUntouched == [][StepSparesStrangers]_vars

\* a call has returned that updated the stale issue of the first phase and
\* left the two issues that match no entity as they were, outside the project
C40_Witness ==
    /\ hpc = "idle"
    /\ run > 0
    /\ Len(repo_issues) > 2
    /\ \E c \in DOMAIN calls : calls[c].op = "updateIssue"
    /\ \E i, j \in DOMAIN repo_issues :
          /\ IsStranger(i) /\ IsStranger(j)
          /\ repo_issues[i].title = "Unrelated" /\ repo_issues[i].body = "text"
          /\ repo_issues[j].title = "Core" /\ repo_issues[j].body = "other"
          /\ j \notin Range(projects[project_id].items)
          /\ \E k \in DOMAIN repo_issues :
                repo_issues[k].title = "Core" /\ repo_issues[k].parent # NoId

====
